---------------------------- MODULE Spec2Model ----------------------------
(***************************************************************************)
(* A model of the real-time synchronisation core of the fleet-dispatch     *)
(* backend: the reports broadcast service (services/reportsSocketService), *)
(* the socket handlers of server.js and socket.js, and the change-stream   *)
(* watchers of server.js.                                                  *)
(*                                                                         *)
(* The module holds several state machines over one set of variables; a    *)
(* specification drives one of them and leaves the others' variables at    *)
(* their initial values.                                                   *)
(***************************************************************************)
EXTENDS Integers, Sequences, FiniteSets, Bags, TLC

VARIABLES
    \* ---- isValidData applied to one payload (SpecValidate)
    vData,                \* the payload handed to isValidData
    vType,                \* the feed kind handed to isValidData
    vDone,                \* isValidData has returned
    vResult,              \* the truthiness of what it returned
    \* ---- ReportsSocketService (SpecReports)
    rsSockets,            \* sockets whose transport is open
    connectedClients,     \* this.connectedClients: Map in insertion order
    lastDataCache,        \* this.lastDataCache: key -> payload or NoEntry
    broadcastInProgress,  \* this.broadcastInProgress
    rsCalls,              \* controller calls awaited by a handler or a cycle
    rsOut,                \* events emitted by the latest step
    \* ---- rooms and initial data of server.js and socket.js (SpecJoin)
    store,                \* per collection: the version of its contents
    serverClients,        \* server.js connectedClients: socket -> entry
    socketRooms,          \* socket.io room membership of each socket
    clients,              \* socket.js clients: feature -> set of sockets
    pendingSends,         \* bag of sends awaiting their store read
    ioOut,                \* events emitted by the latest step
    joinRoomOf,           \* per socket: the room of its latest join-room
    cachedAtJoin,         \* per socket: the cached snapshot at that join
    joinTrace,            \* per socket: what that join has done so far
    \* ---- change streams of server.js (SpecWatch)
    dbOpen,               \* mongoose.connection "open" has fired
    watchers,             \* per collection: closure of setupModelChangeStream
    directStream,         \* per collection: stream of setupDirectDbChangeDetection
    pollingActive,        \* the intervals of setupPollingFallback are set
    failures,             \* per collection: channel failures so far
    resubs,               \* per collection: setupStream calls made by timers
    missed,               \* per collection: a mutation no open stream saw
    \* ---- full-listing broadcasts of server.js (SpecFeed)
    engineClients,        \* io.engine.clients: the transports connected
    handlers,             \* bag of change listeners between their awaits
    refresh,              \* the periodic data refresh between its awaits
    lastEmit,             \* per collection: listing of the latest io.emit
    \* ---- driver simulation and driver events of socket.js (SpecSim)
    driverStore,          \* the Driver collection: id -> persisted document
    simTick,              \* the simulation tick between its awaits
    simOut,               \* events emitted by the latest step
    \* ---- triggerReportsUpdate of ReportsSocketService (SpecCycles)
    rsTimers,             \* 1 s timers set by triggerReportsUpdate, not yet fired
    \* ---- realTimeEvents.broadcast and the emit helpers (SpecBroadcast)
    bcCaller,             \* the caller's payload object
    bcSent,               \* the payload handed to emit, or NoEntry
    bcClock,               \* the dispatcher's clock
    \* ---- polling fallback of server.js (SpecPoll)
    lastUpdates,          \* lastUpdates: per collection, the stamp last seen
    \* ---- stale-connection sweep of server.js (SpecSweep)
    wallClock,            \* the clock, in periods of the sweep
    lastActivity,         \* per socket: lastActivity of its registry entry
    lastInbound,          \* per socket: when it last sent any event
    swept,                \* sockets the latest step has evicted
    \* ---- deletion of drivers by the driver routes (SpecGone)
    deleted,              \* drivers whose document has been deleted
    \* ---- overlapping simulation ticks of socket.js (SpecOverlap)
    lateTick,             \* a tick still between its awaits when the next began
    \* ---- a second run of ReportsSocketService (SpecTwin)
    twin,                 \* the earnings feed of the second run
    \* ---- process shutdown (SpecShutdown)
    shutdown              \* "running", "cleaned" (SIGTERM handled) or "exited"

valVars == <<vData, vType, vDone, vResult>>
repVars == <<rsSockets, connectedClients, lastDataCache, broadcastInProgress,
             rsCalls, rsOut>>
joinVars == <<store, serverClients, socketRooms, clients, pendingSends, ioOut,
              joinRoomOf, cachedAtJoin, joinTrace>>
watchVars == <<dbOpen, watchers, directStream, pollingActive, failures, resubs,
               missed>>
feedVars == <<engineClients, handlers, refresh, lastEmit>>
simVars == <<driverStore, simTick, simOut>>
bcVars == <<bcCaller, bcSent, bcClock>>
sweepVars == <<wallClock, lastActivity, lastInbound, swept>>
extVars == <<sweepVars, deleted, lateTick, twin, shutdown>>
restVars == <<simVars, rsTimers, bcVars, lastUpdates, extVars>>
vars == <<valVars, repVars, joinVars, watchVars, feedVars, restVars>>

\* What the steps of one state machine leave alone.
nonRepVars == <<valVars, joinVars, watchVars, feedVars, restVars>>

-----------------------------------------------------------------------------
(***************************************************************************)
(* JavaScript values.  A value is a record of its type tag and a number    *)
(* that tells the values of one type apart: a number's value, a string's   *)
(* code (0 is "", 1 is "abc", 2 is "5"), a boolean's 0/1, an array's       *)
(* length.                                                                 *)
(***************************************************************************)
JsUndefined == [ty |-> "undefined", n |-> 0]
JsNull      == [ty |-> "null", n |-> 0]
JsNum(k)    == [ty |-> "number", n |-> k]
JsStr(k)    == [ty |-> "string", n |-> k]
JsBool(b)   == [ty |-> "boolean", n |-> IF b THEN 1 ELSE 0]
JsObj       == [ty |-> "object", n |-> 0]
JsArr(len)  == [ty |-> "array", n |-> len]

\* ToBoolean, as `!x`, `a && b` and `if (x)` apply it.
Truthy(v) ==
    CASE v.ty = "undefined" -> FALSE
      [] v.ty = "null"      -> FALSE
      [] v.ty = "number"    -> v.n # 0
      [] v.ty = "string"    -> v.n # 0
      [] v.ty = "boolean"   -> v.n = 1
      [] OTHER              -> TRUE

\* The typeof operator.
TypeOf(v) ==
    CASE v.ty = "null"  -> "object"
      [] v.ty = "array" -> "object"
      [] OTHER          -> v.ty

\* Array.isArray.
IsArray(v) == v.ty = "array"

\* `v > 0` after ToNumber: null is 0, "" is 0, "abc" is NaN, "5" is 5,
\* true is 1, undefined and a plain object are NaN, [] is 0.
GreaterThanZero(v) ==
    CASE v.ty = "number"  -> v.n > 0
      [] v.ty = "string"  -> v.n = 2
      [] v.ty = "boolean" -> v.n = 1
      [] OTHER            -> FALSE

(***************************************************************************)
(* A payload is a value with the properties the service reads.  Only a     *)
(* plain object carries properties; every other value reads as undefined.  *)
(***************************************************************************)
PayloadFields ==
    {"totalEarnings", "totalRides", "chartData", "summary", "tableData",
     "hasData", "timeRange"}

Prim(v) ==
    [ty |-> v.ty, n |-> v.n,
     totalEarnings |-> JsUndefined, totalRides |-> JsUndefined,
     chartData |-> JsUndefined, summary |-> JsUndefined,
     tableData |-> JsUndefined, hasData |-> JsUndefined,
     timeRange |-> JsUndefined]

ObjectWith(te, tr, cd, su, td, hd) ==
    [ty |-> "object", n |-> 0,
     totalEarnings |-> te, totalRides |-> tr, chartData |-> cd,
     summary |-> su, tableData |-> td, hasData |-> hd,
     timeRange |-> JsUndefined]

\* data.<field>
Get(data, field) == IF data.ty = "object" THEN data[field] ELSE JsUndefined

-----------------------------------------------------------------------------
(***************************************************************************)
(* isValidData(data, type), by the truthiness of what it returns: every    *)
(* caller uses the result as a condition.                                  *)
(***************************************************************************)
\* a faulty variant that drops the Array.isArray tests
isValidData_NoArrayCheck(data, type) ==
    IF ~Truthy(data) \/ TypeOf(data) # "object"
    THEN FALSE
    ELSE CASE type = "summary" ->
                /\ Get(data, "totalEarnings") # JsUndefined
                /\ Get(data, "totalRides") # JsUndefined
           [] type = "earnings" ->
                /\ Truthy(Get(data, "chartData"))
                /\ Truthy(Get(data, "summary"))
           [] type = "drivers" -> Truthy(Get(data, "tableData"))
           [] type = "rides" -> Truthy(Get(data, "chartData"))
           [] OTHER -> TRUE

isValidData(data, type) ==
    IF ~Truthy(data) \/ TypeOf(data) # "object"
    THEN FALSE
    ELSE CASE type = "summary" ->
                /\ Get(data, "totalEarnings") # JsUndefined
                /\ Get(data, "totalRides") # JsUndefined
           [] type = "earnings" ->
                /\ Truthy(Get(data, "chartData"))
                /\ IsArray(Get(data, "chartData"))
                /\ Truthy(Get(data, "summary"))
           [] type = "drivers" ->
                /\ Truthy(Get(data, "tableData"))
                /\ IsArray(Get(data, "tableData"))
           [] type = "rides" ->
                /\ Truthy(Get(data, "chartData"))
                /\ IsArray(Get(data, "chartData"))
           [] OTHER -> TRUE

\* The feed kinds isValidData is called with.
ValidationTypes == {"summary", "earnings", "drivers", "rides"}

\* The payloads isValidData is tried on: every combination of these
\* property values, and the values that are no plain object.
TotalValues == {JsUndefined, JsNull, JsNum(0), JsNum(5), JsStr(1)}
ChartValues == {JsUndefined, JsNull, JsArr(0), JsArr(1), JsObj, JsStr(1)}
SummaryValues == {JsUndefined, JsNull, JsObj, JsNum(0), JsStr(0), JsBool(FALSE)}
TableValues == {JsUndefined, JsArr(0), JsArr(1), JsObj}

ValidatorPayloads ==
    {ObjectWith(te, tr, cd, su, td, JsUndefined) :
        te \in TotalValues, tr \in TotalValues, cd \in ChartValues,
        su \in SummaryValues, td \in TableValues}
    \cup {Prim(v) : v \in {JsUndefined, JsNull, JsNum(0), JsNum(5), JsStr(0),
                           JsStr(1), JsBool(TRUE), JsArr(0), JsArr(1)}}

-----------------------------------------------------------------------------
(***************************************************************************)
(* SpecValidate: isValidData applied once to a payload and a feed kind     *)
(* drawn from the sets above.                                              *)
(***************************************************************************)
Validate ==
    /\ ~vDone
    /\ vDone' = TRUE
    /\ vResult' = isValidData(vData, vType)
    /\ UNCHANGED <<vData, vType>>

-----------------------------------------------------------------------------
(***************************************************************************)
(* ReportsSocketService.                                                   *)
(***************************************************************************)
\* Bounds of the model.
MaxCalls == 2          \* controller calls in flight at once

Sockets == {"s1", "s2"}

\* The clients of SpecReports, which is about the cache and the calls that
\* write it.
CacheSockets == {"s1"}

\* What a client sends with requestEarningsReport: {}, {timeRange: "week"}
\* or {driverId: ...} (a filter without a timeRange).
Params == {"empty", "week", "driver"}

TimeRangeDay == JsStr(3)
TimeRangeWeek == JsStr(4)

\* lastDataCache.get(key) of a key never set.
NoEntry == Prim(JsUndefined)

CacheKeys == {"reportsSummary", "earningsReport", "driverPerformance",
              "ridesAnalysis"}

\* What the aggregation collaborator (reportsController) hands to res.json.
SumGood == ObjectWith(JsNum(5), JsNum(2), JsUndefined, JsUndefined,
                      JsUndefined, JsUndefined)
SumZero == ObjectWith(JsNum(0), JsNum(0), JsUndefined, JsUndefined,
                      JsUndefined, JsUndefined)
SumNullEarnings == ObjectWith(JsNull, JsNum(2), JsUndefined, JsUndefined,
                              JsUndefined, JsUndefined)
EmptyObject == ObjectWith(JsUndefined, JsUndefined, JsUndefined, JsUndefined,
                          JsUndefined, JsUndefined)
EarnGood == ObjectWith(JsUndefined, JsUndefined, JsArr(1), JsObj,
                       JsUndefined, JsBool(TRUE))
EarnNoData == ObjectWith(JsUndefined, JsUndefined, JsArr(0), JsObj,
                         JsUndefined, JsBool(FALSE))
DriversGood == ObjectWith(JsUndefined, JsUndefined, JsUndefined, JsUndefined,
                          JsArr(1), JsUndefined)
RidesGood == ObjectWith(JsUndefined, JsUndefined, JsArr(1), JsUndefined,
                        JsUndefined, JsUndefined)

ControllerPayloads(endpoint) ==
    CASE endpoint = "getReportsSummary" ->
            {SumGood, SumZero, SumNullEarnings, EmptyObject}
      [] endpoint = "getEarningsReport" -> {EarnGood, EarnNoData, EmptyObject}
      [] endpoint = "getDriverPerformanceReport" -> {DriversGood, EmptyObject}
      [] endpoint = "getRidesAnalysisReport" -> {RidesGood, EmptyObject}

\* The four request handlers differ only in these names.
RequestKinds == {"requestEarningsReport", "requestDriverPerformance",
                 "requestRidesAnalysis", "requestReportsSummary"}
BroadcastKinds == {"broadcastReportsSummary", "broadcastEarningsReport"}

EndpointOf(kind) ==
    CASE kind \in {"requestEarningsReport", "broadcastEarningsReport"} ->
            "getEarningsReport"
      [] kind = "requestDriverPerformance" -> "getDriverPerformanceReport"
      [] kind = "requestRidesAnalysis" -> "getRidesAnalysisReport"
      [] OTHER -> "getReportsSummary"

ValidationTypeOf(kind) ==
    CASE kind \in {"requestEarningsReport", "broadcastEarningsReport"} ->
            "earnings"
      [] kind = "requestDriverPerformance" -> "drivers"
      [] kind = "requestRidesAnalysis" -> "rides"
      [] OTHER -> "summary"

CacheKeyOf(kind) ==
    CASE kind \in {"requestEarningsReport", "broadcastEarningsReport"} ->
            "earningsReport"
      [] kind = "requestDriverPerformance" -> "driverPerformance"
      [] kind = "requestRidesAnalysis" -> "ridesAnalysis"
      [] OTHER -> "reportsSummary"

DataEventOf(kind) ==
    CASE kind = "requestEarningsReport" -> "earningsReportData"
      [] kind = "requestDriverPerformance" -> "driverPerformanceData"
      [] kind = "requestRidesAnalysis" -> "ridesAnalysisData"
      [] kind = "requestReportsSummary" -> "reportsSummaryData"
      [] kind = "broadcastReportsSummary" -> "reportsSummaryUpdate"
      [] OTHER -> "earningsReportUpdate"

\* An emitted event: socket.emit (to one socket) or io.emit (to "all").
Ev(name, to, data) == [ev |-> name, to |-> to, data |-> data]

\* A controller call a handler or a cycle awaits.  phase: "free" (no call),
\* "pending" (res not yet used), "responded" (res.json or res.status().json
\* has run, the promise is not yet settled).
CallIds == DOMAIN rsCalls
FreeCall == [kind |-> "none", socket |-> "none", timeRange |-> JsUndefined,
             phase |-> "free"]
FreeIds == {c \in CallIds : rsCalls[c].phase = "free"}
NewId == CHOOSE c \in FreeIds : \A d \in FreeIds : c <= d

ClientIds == {connectedClients[i].id : i \in DOMAIN connectedClients}
ClientIndex(s) == CHOOSE i \in DOMAIN connectedClients : connectedClients[i].id = s

\* for (const clientData of this.connectedClients.values()) { if (non-empty) ... break }
NonEmptyFilter(f) == f # "empty"
FirstNonEmpty ==
    LET idx == {i \in DOMAIN connectedClients :
                    NonEmptyFilter(connectedClients[i].filters)}
    IN IF idx = {} THEN "empty"
       ELSE connectedClients[CHOOSE i \in idx : \A j \in idx : i <= j].filters

\* clientFilters.timeRange
FilterTimeRange(f) == IF f = "week" THEN TimeRangeWeek ELSE JsUndefined

RemoveClient(s) == SelectSeq(connectedClients, LAMBDA e : e.id # s)

\* sendCachedDataToClient(socket)
sendCachedDataToClient(s) ==
    LET one(key, type, event) ==
            IF Truthy(lastDataCache[key]) /\ isValidData(lastDataCache[key], type)
            THEN <<Ev(event, s, lastDataCache[key])>>
            ELSE <<>>
    IN one("reportsSummary", "summary", "reportsSummaryData")
       \o one("earningsReport", "earnings", "earningsReportData")
       \o one("driverPerformance", "drivers", "driverPerformanceData")

\* io.on("connection")
Connection(s) ==
    /\ s \notin rsSockets
    /\ rsSockets' = rsSockets \cup {s}
    /\ connectedClients' =
           Append(RemoveClient(s), [id |-> s, filters |-> "empty"])
    /\ rsOut' = sendCachedDataToClient(s)
    /\ UNCHANGED <<lastDataCache, broadcastInProgress, rsCalls>>

\* socket.on("disconnect")
Disconnect(s) ==
    /\ s \in rsSockets
    /\ rsSockets' = rsSockets \ {s}
    /\ connectedClients' = RemoveClient(s)
    /\ rsOut' = <<>>
    /\ UNCHANGED <<lastDataCache, broadcastInProgress, rsCalls>>

\* A request handler up to its await: the registry entry is updated
\* (this.connectedClients.get(socket.id) is undefined for an evicted client,
\* and the property write throws into the handler's catch), then the
\* controller is called.
StartRequest(kind, s, params) ==
    /\ s \in rsSockets
    /\ IF s \notin ClientIds
       THEN /\ rsOut' = <<Ev("reportError", s, NoEntry)>>
            /\ UNCHANGED <<connectedClients, rsCalls>>
       ELSE /\ FreeIds # {}
            /\ connectedClients' =
                   IF kind = "requestEarningsReport"
                   THEN [connectedClients EXCEPT ![ClientIndex(s)].filters = params]
                   ELSE connectedClients
            /\ rsCalls' = [rsCalls EXCEPT ![NewId] =
                   [kind |-> kind, socket |-> s, timeRange |-> JsUndefined,
                    phase |-> "pending"]]
            /\ rsOut' = <<>>
    /\ UNCHANGED <<rsSockets, lastDataCache, broadcastInProgress>>

requestEarningsReport(s, params) == StartRequest("requestEarningsReport", s, params)
requestDriverPerformance(s) == StartRequest("requestDriverPerformance", s, "empty")
requestRidesAnalysis(s) == StartRequest("requestRidesAnalysis", s, "empty")
requestReportsSummary(s) == StartRequest("requestReportsSummary", s, "empty")

\* mockRes.json(data) of a request handler: what it stores and what it sends.
RequestJsonStores(call, data) == isValidData(data, ValidationTypeOf(call.kind))

RequestJsonCache(call, data) ==
    IF RequestJsonStores(call, data)
    THEN [lastDataCache EXCEPT ![CacheKeyOf(call.kind)] = data]
    ELSE lastDataCache

RequestJsonOut(call, data) ==
    IF RequestJsonStores(call, data)
    THEN <<Ev(DataEventOf(call.kind), call.socket, data)>>
    ELSE IF Truthy(lastDataCache[CacheKeyOf(call.kind)])
         THEN <<Ev(DataEventOf(call.kind), call.socket,
                   lastDataCache[CacheKeyOf(call.kind)])>>
         ELSE <<>>

\* mockRes.json(data) of a broadcast cycle.
BroadcastJsonStores(call, data) ==
    IF call.kind = "broadcastReportsSummary"
    THEN /\ isValidData(data, "summary")
         /\ \/ GreaterThanZero(Get(data, "totalEarnings"))
            \/ GreaterThanZero(Get(data, "totalRides"))
    ELSE /\ isValidData(data, "earnings")
         /\ Truthy(Get(data, "hasData"))

\* { ...data, timeRange: mockReq.query.timeRange || "day" } for earnings
BroadcastPayload(call, data) ==
    IF call.kind = "broadcastReportsSummary"
    THEN data
    ELSE [data EXCEPT !.timeRange =
             IF Truthy(call.timeRange) THEN call.timeRange ELSE TimeRangeDay]

BroadcastJsonCache(call, data) ==
    IF BroadcastJsonStores(call, data)
    THEN [lastDataCache EXCEPT ![CacheKeyOf(call.kind)] = BroadcastPayload(call, data)]
    ELSE lastDataCache

BroadcastJsonOut(call, data) ==
    IF BroadcastJsonStores(call, data)
    THEN <<Ev(DataEventOf(call.kind), "all", BroadcastPayload(call, data))>>
    ELSE <<>>

\* The controller calls res.json(data).
ControllerJson(c, data) ==
    /\ rsCalls[c].phase = "pending"
    /\ rsCalls' = [rsCalls EXCEPT ![c].phase = "responded"]
    /\ IF rsCalls[c].kind \in RequestKinds
       THEN /\ lastDataCache' = RequestJsonCache(rsCalls[c], data)
            /\ rsOut' = RequestJsonOut(rsCalls[c], data)
            /\ UNCHANGED broadcastInProgress
       ELSE /\ lastDataCache' = BroadcastJsonCache(rsCalls[c], data)
            /\ rsOut' = BroadcastJsonOut(rsCalls[c], data)
            /\ broadcastInProgress' = FALSE
    /\ UNCHANGED <<rsSockets, connectedClients>>

\* The controller calls res.status(code).json(error).
ControllerStatus(c) ==
    /\ rsCalls[c].phase = "pending"
    /\ rsCalls' = [rsCalls EXCEPT ![c].phase = "responded"]
    /\ IF rsCalls[c].kind \in RequestKinds
       THEN /\ rsOut' = <<Ev("reportError", rsCalls[c].socket, NoEntry)>>
            /\ UNCHANGED broadcastInProgress
       ELSE /\ rsOut' = <<>>
            /\ broadcastInProgress' = FALSE
    /\ UNCHANGED <<rsSockets, connectedClients, lastDataCache>>

\* The awaited controller promise resolves (with or without res having
\* been used).
ControllerReturn(c) ==
    /\ rsCalls[c].phase \in {"pending", "responded"}
    /\ rsCalls' = [rsCalls EXCEPT ![c] = FreeCall]
    /\ rsOut' = <<>>
    /\ UNCHANGED <<rsSockets, connectedClients, lastDataCache,
                   broadcastInProgress>>

\* The awaited controller promise rejects: the catch of the handler (sends
\* reportError) or of the cycle (clears the guard).
ControllerThrow(c) ==
    /\ rsCalls[c].phase \in {"pending", "responded"}
    /\ rsCalls' = [rsCalls EXCEPT ![c] = FreeCall]
    /\ IF rsCalls[c].kind \in RequestKinds
       THEN /\ rsOut' = <<Ev("reportError", rsCalls[c].socket, NoEntry)>>
            /\ UNCHANGED broadcastInProgress
       ELSE /\ rsOut' = <<>>
            /\ broadcastInProgress' = FALSE
    /\ UNCHANGED <<rsSockets, connectedClients, lastDataCache>>

\* broadcastReportsSummary() / broadcastEarningsReport() up to the await.
\* The summary cycle queries with clientFilters.timeRange or nothing, the
\* earnings cycle with clientFilters if it has a timeRange, else "day".
StartBroadcast(kind) ==
    IF Len(connectedClients) = 0 \/ broadcastInProgress
    THEN /\ rsOut' = <<>>
         /\ UNCHANGED <<rsSockets, connectedClients, lastDataCache,
                        broadcastInProgress, rsCalls>>
    ELSE /\ FreeIds # {}
         /\ broadcastInProgress' = TRUE
         /\ rsCalls' = [rsCalls EXCEPT ![NewId] =
                [kind |-> kind, socket |-> "none",
                 timeRange |-> IF kind = "broadcastEarningsReport"
                                  /\ ~Truthy(FilterTimeRange(FirstNonEmpty))
                               THEN TimeRangeDay
                               ELSE FilterTimeRange(FirstNonEmpty),
                 phase |-> "pending"]]
         /\ rsOut' = <<>>
         /\ UNCHANGED <<rsSockets, connectedClients, lastDataCache>>

\* The two setInterval callbacks of startPeriodicUpdates.
PeriodicSummary == StartBroadcast("broadcastReportsSummary")
PeriodicEarnings == StartBroadcast("broadcastEarningsReport")

\* cleanupInactiveConnections(): the entries whose lastActivity is older
\* than the timeout are deleted; the transports stay open.  Time is not
\* modelled, so any set of entries may be the expired ones.
cleanupInactiveConnections(expired) ==
    /\ expired # {}
    /\ expired \subseteq ClientIds
    /\ connectedClients' = SelectSeq(connectedClients, LAMBDA e : e.id \notin expired)
    /\ rsOut' = <<>>
    /\ UNCHANGED <<rsSockets, lastDataCache, broadcastInProgress, rsCalls>>

-----------------------------------------------------------------------------
(***************************************************************************)
(* Rooms and initial data: the "connection", "join-room" and "disconnect"  *)
(* handlers that server.js and socket.js register on the same io, and the  *)
(* sends they start.  The listeners of one event run in the order of their *)
(* registration: server.js, ReportsSocketService, socket.js.               *)
(***************************************************************************)
MaxSends == 2          \* sends awaiting their store read at once
JoinCalls == 1         \* controller calls in flight while rooms are joined

Collections == {"vehicles", "drivers", "rides", "admins"}
Rooms == {"vehicles", "drivers", "dashboard", "rides", "admin-management",
          "reports"}
ClientSets == {"dashboard", "admin", "rides", "reports", "drivers", "vehicles",
               "all"}

NoClient == [has |-> FALSE, rooms |-> <<>>]

\* The "<modelName>Update" events carry a full listing; the listing is
\* identified by the version of the collection it was read at.
UpdateEventOf(feed) ==
    CASE feed = "vehicles" -> "vehiclesUpdate"
      [] feed = "drivers" -> "driversUpdate"
      [] feed = "rides" -> "ridesUpdate"
      [] feed = "admins" -> "adminsUpdate"
      [] feed = "dashboard" -> "dashboardStats"

IoEv(name, to, data) == [ev |-> name, to |-> to, data |-> data]

\* A send that awaits its store read: fn is the function that awaits,
\* cause the handler that called it.
Send(fn, s, feed, cause) == [fn |-> fn, socket |-> s, feed |-> feed, cause |-> cause]

InSeq(x, seq) == \E i \in DOMAIN seq : seq[i] = x

\* sendRoomData(socket, room) up to its await: the read it starts
sendRoomData(s, room) ==
    CASE room = "vehicles" -> {Send("sendRoomData", s, "vehicles", "join")}
      [] room = "drivers" -> {Send("sendRoomData", s, "drivers", "join")}
      [] room = "dashboard" -> {Send("sendRoomData", s, "dashboard", "join")}
      [] room = "rides" -> {Send("sendRoomData", s, "rides", "join")}
      [] room = "admin-management" -> {Send("sendRoomData", s, "admins", "join")}
      [] OTHER -> {}

\* the switch of the join-room handler of socket.js: the read it starts
socketJsJoinSends(s, room) ==
    CASE room = "dashboard" -> {Send("sendInitialDashboardData", s, "dashboard", "join")}
      [] room = "drivers" -> {Send("sendInitialDriverData", s, "drivers", "join")}
      [] room = "vehicles" -> {Send("sendInitialVehicleData", s, "vehicles", "join")}
      [] OTHER -> {}

\* the switch of the join-room handler of socket.js: the set it adds to
ClientSetOfRoom(room) ==
    CASE room = "dashboard" -> {"dashboard"}
      [] room = "admin-management" -> {"admin"}
      [] room = "rides" -> {"rides"}
      [] room = "reports" -> {"reports"}
      [] room = "drivers" -> {"drivers"}
      [] room = "vehicles" -> {"vehicles"}
      [] OTHER -> {}

\* The snapshot the process keeps for the feed of a room: lastDataCache of
\* ReportsSocketService is the only cache of payloads there is; no listing
\* of vehicles, drivers, rides or admins is kept after it is emitted.
CachedSnapshot(room) ==
    IF room = "reports" THEN lastDataCache["reportsSummary"] ELSE NoEntry

TraceCap(seq) == IF Len(seq) > 3 THEN SubSeq(seq, 1, 3) ELSE seq

\* io.on("connection") of server.js and of socket.js (the one of
\* ReportsSocketService is Connection)
ioConnection(s) ==
    /\ s \notin rsSockets
    /\ BagCardinality(pendingSends) + 1 <= MaxSends
    /\ serverClients' = [serverClients EXCEPT ![s] = [has |-> TRUE, rooms |-> <<>>]]
    /\ socketRooms' = [socketRooms EXCEPT ![s] = {"dashboard", "admin-management"}]
    /\ clients' = [clients EXCEPT !["all"] = @ \cup {s},
                                  !["dashboard"] = @ \cup {s}]
    /\ pendingSends' = pendingSends (+)
           SetToBag({Send("sendInitialDashboardData", s, "dashboard", "connection")})
    /\ ioOut' = <<IoEv("connection-established", s, 0)>>
    /\ UNCHANGED <<store, joinRoomOf, cachedAtJoin, joinTrace>>

\* socket.on("join-room") of server.js, then of socket.js
JoinRoom(s, room) ==
    LET sends == SetToBag(sendRoomData(s, room)) (+) SetToBag(socketJsJoinSends(s, room))
    IN
    /\ s \in rsSockets
    /\ BagCardinality(pendingSends) + BagCardinality(sends) <= MaxSends
    /\ socketRooms' = [socketRooms EXCEPT ![s] = @ \cup {room}]
    /\ serverClients' =
           IF serverClients[s].has /\ ~InSeq(room, serverClients[s].rooms)
           THEN [serverClients EXCEPT ![s].rooms = Append(@, room)]
           ELSE serverClients
    /\ clients' = [k \in ClientSets |->
                      IF k \in ClientSetOfRoom(room) THEN clients[k] \cup {s}
                      ELSE clients[k]]
    /\ pendingSends' = pendingSends (+) sends
    /\ ioOut' = IF room = "admin-management"
                THEN <<IoEv("connected", s, 0)>> ELSE <<>>
    /\ joinRoomOf' = [joinRoomOf EXCEPT ![s] = room]
    /\ cachedAtJoin' = [cachedAtJoin EXCEPT ![s] = CachedSnapshot(room)]
    /\ joinTrace' = [joinTrace EXCEPT ![s] =
                        [i \in 1..BagCardinality(sends) |-> "storeRead"]]
    /\ UNCHANGED store

\* The store read a send awaits is answered: the listing is emitted to the
\* socket; a rejected read goes to the catch of the function.
\* sendInitialDashboardData logs the error, sendDashboardStats as well; an
\* absent or invalid result of the dashboard controller emits nothing.
SendResolves(t, outcome) ==
    LET s == t.socket
        emitted ==
            CASE outcome = "data" -> <<IoEv(UpdateEventOf(t.feed), s, store[t.feed])>>
              [] outcome = "stats" -> <<IoEv("dashboardStats", s, 0)>>
              [] outcome = "nothing" -> <<>>
              [] outcome = "error" -> <<IoEv("error", s, 0)>>
    IN
    /\ BagIn(t, pendingSends)
    /\ outcome \in (IF t.feed = "dashboard" THEN {"stats", "nothing"}
                    ELSE {"data", "error"})
    /\ pendingSends' = pendingSends (-) SetToBag({t})
    /\ ioOut' = emitted
    /\ joinTrace' =
           IF t.cause = "join" /\ outcome \in {"data", "stats"}
           THEN [joinTrace EXCEPT ![s] = TraceCap(Append(@, "fresh"))]
           ELSE joinTrace
    /\ UNCHANGED <<store, serverClients, socketRooms, clients, joinRoomOf,
                   cachedAtJoin>>

\* socket.on("disconnect") of server.js and of socket.js; socket.io takes
\* the socket out of its rooms
ioDisconnect(s) ==
    /\ s \in rsSockets
    /\ serverClients' = [serverClients EXCEPT ![s] = NoClient]
    /\ clients' = [k \in ClientSets |-> clients[k] \ {s}]
    /\ socketRooms' = [socketRooms EXCEPT ![s] = {}]
    /\ ioOut' = <<>>
    /\ UNCHANGED <<store, pendingSends, joinRoomOf, cachedAtJoin, joinTrace>>

InitJoin ==
    /\ store = [c \in Collections |-> 0]
    /\ serverClients = [s \in Sockets |-> NoClient]
    /\ socketRooms = [s \in Sockets |-> {}]
    /\ clients = [k \in ClientSets |-> {}]
    /\ pendingSends = EmptyBag
    /\ ioOut = <<>>
    /\ joinRoomOf = [s \in Sockets |-> "none"]
    /\ cachedAtJoin = [s \in Sockets |-> NoEntry]
    /\ joinTrace = [s \in Sockets |-> <<>>]

-----------------------------------------------------------------------------
(***************************************************************************)
(* Change streams: mongoose.connection.once("open") calls                  *)
(* setupChangeStreams and setupDirectDbChangeDetection.  Each collection   *)
(* has the closure of setupModelChangeStream (changeStream, isConnected),  *)
(* whose error and close listeners stay on every stream it has opened, and *)
(* one stream of setupDirectDbChangeDetection with a change listener only. *)
(*                                                                         *)
(* A stream is "open", "closing" (closed by close() or by the driver after *)
(* an error, its close event not yet emitted) or "closed".  The driver     *)
(* emits the close event of a stream some time after the stream is closed; *)
(* staleCloses counts the close events still due from streams the closure  *)
(* no longer refers to.  The reconnect timers of one closure have the same *)
(* delay and the same callback, so their number is what matters.           *)
(***************************************************************************)
MaxFailures == 2       \* channel failures per collection
MaxResubs == 3         \* setupStream calls by timers per collection
MaxTimers == 3         \* reconnect timers pending per collection
MaxMutations == 2      \* mutations of one collection

NewWatcher == [changeStream |-> "undefined", isConnected |-> FALSE,
               timers |-> 0, staleCloses |-> 0]

\* the body of the error listener, of the close listener and of the catch
\* of setupStream: isConnected = false; setTimeout(reconnect, 5000)
ScheduleReconnect(w) == [w EXCEPT !.isConnected = FALSE, !.timers = @ + 1]

\* setupStream(): the previous stream, if any, is closed; its close event
\* is emitted inside close() ("sync") or later ("async").  Then Model.watch
\* returns a stream ("ok") or throws into the catch ("throws").
setupStream(w, outcome, delivery) ==
    LET closed ==
            CASE w.changeStream = "open" /\ delivery = "sync" ->
                     ScheduleReconnect([w EXCEPT !.changeStream = "closed"])
              [] w.changeStream = "open" /\ delivery = "async" ->
                     [w EXCEPT !.changeStream = "closed", !.staleCloses = @ + 1]
              [] w.changeStream = "closing" ->
                     [w EXCEPT !.changeStream = "closed", !.staleCloses = @ + 1]
              [] OTHER -> w
    IN IF outcome = "ok"
       THEN [closed EXCEPT !.changeStream = "open", !.isConnected = TRUE]
       ELSE ScheduleReconnect(closed)

\* The outer catch of setupChangeStreams is the only caller of
\* setupPollingFallback.  Whatever is thrown inside setupStream is caught
\* by the catch of setupStream, so setupModelChangeStream returns normally.
setupModelChangeStreamThrows(outcome) == FALSE

ActiveSubscriptions(c) ==
    (IF watchers[c].changeStream = "open" THEN 1 ELSE 0)
    + (IF directStream[c] = "open" THEN 1 ELSE 0)

\* mongoose.connection.once("open"): setupChangeStreams(), then
\* setupDirectDbChangeDetection()
MongoOpen(thrown) ==
    /\ ~dbOpen
    /\ dbOpen' = TRUE
    /\ watchers' = [c \in Collections |->
                       setupStream(NewWatcher,
                                   IF c \in thrown THEN "throws" ELSE "ok", "async")]
    /\ pollingActive' =
           \E c \in Collections :
               setupModelChangeStreamThrows(IF c \in thrown THEN "throws" ELSE "ok")
    /\ directStream' = [c \in Collections |-> "open"]
    /\ failures' = [c \in Collections |-> IF c \in thrown THEN 1 ELSE 0]
    /\ UNCHANGED <<resubs, missed>>

\* changeStream.on("error"): the driver emits the error of a stream and
\* closes the stream
StreamError(c) ==
    /\ watchers[c].changeStream = "open"
    /\ failures[c] < MaxFailures
    /\ watchers[c].timers < MaxTimers
    /\ watchers' = [watchers EXCEPT ![c] =
                       ScheduleReconnect([@ EXCEPT !.changeStream = "closing"])]
    /\ failures' = [failures EXCEPT ![c] = @ + 1]
    /\ UNCHANGED <<dbOpen, directStream, pollingActive, resubs, missed>>

\* changeStream.on("close") of the stream the closure refers to: after an
\* error or a close() ("closing"), or because the channel went away ("open")
StreamClose(c) ==
    /\ watchers[c].changeStream \in {"open", "closing"}
    /\ watchers[c].changeStream = "open" => failures[c] < MaxFailures
    /\ watchers[c].timers < MaxTimers
    /\ watchers' = [watchers EXCEPT ![c] =
                       ScheduleReconnect([@ EXCEPT !.changeStream = "closed"])]
    /\ failures' = IF watchers[c].changeStream = "open"
                   THEN [failures EXCEPT ![c] = @ + 1]
                   ELSE failures
    /\ UNCHANGED <<dbOpen, directStream, pollingActive, resubs, missed>>

\* changeStream.on("close") of a stream that setupStream has replaced
StaleStreamClose(c) ==
    /\ watchers[c].staleCloses > 0
    /\ watchers[c].timers < MaxTimers
    /\ watchers' = [watchers EXCEPT ![c] =
                       ScheduleReconnect([@ EXCEPT !.staleCloses = @ - 1])]
    /\ UNCHANGED <<dbOpen, directStream, pollingActive, failures, resubs, missed>>

\* the callback of a reconnect timer: if (!isConnected) setupStream()
ReconnectTimer(c, outcome, delivery) ==
    LET w == [watchers[c] EXCEPT !.timers = @ - 1]
    IN
    /\ watchers[c].timers > 0
    /\ IF w.isConnected
       THEN /\ outcome = "ok" /\ delivery = "async"
            /\ watchers' = [watchers EXCEPT ![c] = w]
            /\ UNCHANGED <<failures, resubs>>
       ELSE /\ resubs[c] < MaxResubs
            /\ outcome = "throws" => failures[c] < MaxFailures
            /\ delivery = "sync" => w.changeStream = "open"
            /\ watchers' = [watchers EXCEPT ![c] = setupStream(w, outcome, delivery)]
            /\ resubs' = [resubs EXCEPT ![c] = @ + 1]
            /\ failures' = IF outcome = "throws"
                           THEN [failures EXCEPT ![c] = @ + 1]
                           ELSE failures
    /\ UNCHANGED <<dbOpen, directStream, pollingActive, missed>>

\* A stream of setupDirectDbChangeDetection goes away with the channel; it
\* has no close listener and nothing opens it again.
DirectStreamClose(c) ==
    /\ directStream[c] = "open"
    /\ directStream' = [directStream EXCEPT ![c] = "closed"]
    /\ UNCHANGED <<dbOpen, watchers, pollingActive, failures, resubs, missed>>

\* The cleanup function setupModelChangeStream returns:
\* if (changeStream) changeStream.close().  The close event of an open
\* stream is emitted inside close() ("sync") or later ("async"); a stream
\* that is closed already emits nothing.
cleanup(w, delivery) ==
    IF w.changeStream = "open"
    THEN IF delivery = "sync"
         THEN ScheduleReconnect([w EXCEPT !.changeStream = "closed"])
         ELSE [w EXCEPT !.changeStream = "closing"]
    ELSE w

\* process.on("SIGTERM") / process.on("SIGINT"): changeStreamCleanup() runs
\* the cleanup of every watcher and of the direct streams, then
\* server.close(...) stops listening.
Sigterm(delivery) ==
    /\ shutdown = "running"
    /\ dbOpen
    /\ \A c \in Collections :
           delivery[c] = "sync" => watchers[c].timers < MaxTimers
    /\ shutdown' = "cleaned"
    /\ watchers' = [c \in Collections |-> cleanup(watchers[c], delivery[c])]
    /\ directStream' = [c \in Collections |-> "closed"]
    /\ UNCHANGED <<dbOpen, pollingActive, failures, resubs, missed>>

\* The callback of server.close: every connection has ended;
\* process.exit(0).
ServerClosed ==
    /\ shutdown = "cleaned"
    /\ shutdown' = "exited"
    /\ UNCHANGED watchVars

InitWatch ==
    /\ dbOpen = FALSE
    /\ watchers = [c \in Collections |-> NewWatcher]
    /\ directStream = [c \in Collections |-> "undefined"]
    /\ pollingActive = FALSE
    /\ failures = [c \in Collections |-> 0]
    /\ resubs = [c \in Collections |-> 0]
    /\ missed = [c \in Collections |-> FALSE]

-----------------------------------------------------------------------------
(***************************************************************************)
(* Full-listing broadcasts: the change listeners of the streams and the    *)
(* periodic data refresh both call realTimeEvents.sendModelUpdates, which  *)
(* reads the collection and emits "<collection>Update" to every client.    *)
(* A store read is answered with the contents at the moment the store      *)
(* executes it; the emit happens when the awaiting function resumes.       *)
(***************************************************************************)
\* io.engine.clientsCount
clientsCount == Cardinality(engineClients)

NoListing == 0 - 1     \* lastEmit before anything is emitted

\* a faulty variant of the refresh that leaves the admins out
RefreshOrder_NoAdmins == <<"vehicles", "drivers", "rides">>
\* the order of the sendModelUpdates calls of the periodic data refresh
RefreshOrder == <<"vehicles", "drivers", "rides", "admins">>

RefreshIdle == [pc |-> "idle", idx |-> 0, data |-> NoListing]

\* A change listener between its awaits: "settle" (the 100 ms delay and the
\* read of sendModelUpdates are pending) or "emit" (the read is answered
\* with data).  The sendDashboardStats that the listener of
\* setupChangeStreams awaits last emits "dashboardStats" and touches none
\* of these variables.
Handler(c, pc, data) == [coll |-> c, pc |-> pc, data |-> data]

StreamListeners(c) ==
    IF watchers[c].changeStream = "open"
    THEN SetToBag({Handler(c, "settle", NoListing)})
    ELSE EmptyBag
DirectListeners(c) ==
    IF directStream[c] = "open"
    THEN SetToBag({Handler(c, "settle", NoListing)})
    ELSE EmptyBag

\* A write to a collection, by a CRUD endpoint or directly in the store;
\* each open stream of the collection has its change listener run up to
\* its first await.
CollectionChange(c) ==
    /\ store[c] < MaxMutations
    /\ store' = [store EXCEPT ![c] = @ + 1]
    /\ missed' = [missed EXCEPT ![c] = @ \/ (dbOpen /\ ActiveSubscriptions(c) = 0)]
    /\ handlers' = handlers (+) StreamListeners(c) (+) DirectListeners(c)
    /\ UNCHANGED <<serverClients, socketRooms, clients, pendingSends, ioOut,
                   joinRoomOf, cachedAtJoin, joinTrace>>
    /\ UNCHANGED <<dbOpen, watchers, directStream, pollingActive, failures, resubs>>
    /\ UNCHANGED <<engineClients, refresh, lastEmit>>

frameFeed == <<store, serverClients, socketRooms, clients, pendingSends, ioOut,
               joinRoomOf, cachedAtJoin, joinTrace, watchVars>>

\* a transport connects to or leaves the engine
ClientArrives(s) ==
    /\ s \notin engineClients
    /\ engineClients' = engineClients \cup {s}
    /\ UNCHANGED <<handlers, refresh, lastEmit, frameFeed>>

ClientLeaves(s) ==
    /\ s \in engineClients
    /\ engineClients' = engineClients \ {s}
    /\ UNCHANGED <<handlers, refresh, lastEmit, frameFeed>>

\* sendModelUpdates in a change listener: the read is answered (ok) or
\* rejected; a rejection is logged by the catch of sendModelUpdates and the
\* listener goes on
ListenerRead(h, ok) ==
    /\ BagIn(h, handlers)
    /\ h.pc = "settle"
    /\ handlers' = (handlers (-) SetToBag({h})) (+)
           (IF ok THEN SetToBag({[h EXCEPT !.pc = "emit", !.data = store[h.coll]]})
            ELSE EmptyBag)
    /\ UNCHANGED <<engineClients, refresh, lastEmit, frameFeed>>

\* io.emit(`${modelName}Update`, {success, data, timestamp})
ListenerEmit(h) ==
    /\ BagIn(h, handlers)
    /\ h.pc = "emit"
    /\ lastEmit' = [lastEmit EXCEPT ![h.coll] = h.data]
    /\ handlers' = handlers (-) SetToBag({h})
    /\ UNCHANGED <<engineClients, refresh, frameFeed>>

\* the callback of setInterval(..., 5000): if (io.engine.clientsCount > 0)
\* the refresh starts with the first sendModelUpdates.  One refresh runs
\* at a time; the sendDashboardStats it awaits last emits "dashboardStats"
\* and touches none of these variables.
RefreshTick ==
    /\ refresh.pc = "idle"
    /\ clientsCount > 0
    /\ refresh' = [pc |-> "read", idx |-> 1, data |-> NoListing]
    /\ UNCHANGED <<engineClients, handlers, lastEmit, frameFeed>>

RefreshAdvance(r) ==
    IF r.idx < Len(RefreshOrder)
    THEN [pc |-> "read", idx |-> r.idx + 1, data |-> NoListing]
    ELSE RefreshIdle

\* A faulty variant in which a rejected read reaches the catch of the
\* interval callback and ends the refresh.
RefreshRead_Propagates(ok) ==
    /\ refresh.pc = "read"
    /\ refresh' = IF ok
                  THEN [refresh EXCEPT !.pc = "emit",
                                       !.data = store[RefreshOrder[refresh.idx]]]
                  ELSE RefreshIdle
    /\ UNCHANGED <<engineClients, handlers, lastEmit, frameFeed>>

\* the read of a sendModelUpdates of the refresh is answered or rejected
RefreshRead(ok) ==
    /\ refresh.pc = "read"
    /\ refresh' = IF ok
                  THEN [refresh EXCEPT !.pc = "emit",
                                       !.data = store[RefreshOrder[refresh.idx]]]
                  ELSE RefreshAdvance(refresh)
    /\ UNCHANGED <<engineClients, handlers, lastEmit, frameFeed>>

RefreshEmit ==
    /\ refresh.pc = "emit"
    /\ lastEmit' = [lastEmit EXCEPT ![RefreshOrder[refresh.idx]] = refresh.data]
    /\ refresh' = RefreshAdvance(refresh)
    /\ UNCHANGED <<engineClients, handlers, frameFeed>>

InitFeed ==
    /\ engineClients = {}
    /\ handlers = EmptyBag
    /\ refresh = RefreshIdle
    /\ lastEmit = [c \in Collections |-> NoListing]

-----------------------------------------------------------------------------
(***************************************************************************)
(* triggerReportsUpdate of ReportsSocketService: a summary cycle unless    *)
(* the guard is set, and, once the awaited cycle has returned, a timer of  *)
(* 1 s whose callback calls broadcastEarningsReport.  A call started by    *)
(* the trigger carries "trigger" as its socket.                            *)
(***************************************************************************)
MaxTriggers == 1       \* timers of triggerReportsUpdate set at once

\* triggerReportsUpdate() up to its await.  Without clients
\* broadcastReportsSummary returns at once and the timer is set.
triggerReportsUpdate ==
    IF broadcastInProgress
    THEN /\ rsOut' = <<>>
         /\ UNCHANGED <<rsSockets, connectedClients, lastDataCache,
                        broadcastInProgress, rsCalls, rsTimers>>
    ELSE IF Len(connectedClients) = 0
    THEN /\ rsTimers < MaxTriggers
         /\ rsTimers' = rsTimers + 1
         /\ rsOut' = <<>>
         /\ UNCHANGED <<rsSockets, connectedClients, lastDataCache,
                        broadcastInProgress, rsCalls>>
    ELSE /\ FreeIds # {}
         /\ broadcastInProgress' = TRUE
         /\ rsCalls' = [rsCalls EXCEPT ![NewId] =
                [kind |-> "broadcastReportsSummary", socket |-> "trigger",
                 timeRange |-> FilterTimeRange(FirstNonEmpty),
                 phase |-> "pending"]]
         /\ rsOut' = <<>>
         /\ UNCHANGED <<rsSockets, connectedClients, lastDataCache, rsTimers>>

\* The await of triggerReportsUpdate returns when the controller call of
\* its cycle settles: the timer is set.
TriggerResumes(c) ==
    IF rsCalls[c].socket = "trigger"
    THEN rsTimers < MaxTriggers /\ rsTimers' = rsTimers + 1
    ELSE rsTimers' = rsTimers

\* The callback of the timer: broadcastEarningsReport()
TriggerTimer ==
    /\ rsTimers > 0
    /\ rsTimers' = rsTimers - 1
    /\ StartBroadcast("broadcastEarningsReport")

-----------------------------------------------------------------------------
(***************************************************************************)
(* realTimeEvents.broadcast of server.js and the emit helpers of           *)
(* socket.js.  A payload object is a function from the keys it has to      *)
(* their values; the dispatcher's stamp new Date().toISOString() is the    *)
(* reading of its clock, and a caller may have put any value under         *)
(* "timestamp", a reading of the clock among them.                         *)
(***************************************************************************)
MaxClock == 2          \* readings of the dispatcher's clock

BcPayloads ==
    UNION {[S -> {0, 1}] : S \in SUBSET {"success", "data", "timestamp"}}

\* A faulty variant of the merge in which the fields of the caller win.
StampedPayload_CallerWins(data, now) ==
    [f \in DOMAIN data \cup {"timestamp"} |->
        IF f \in DOMAIN data THEN data[f] ELSE now]

\* { ...data, timestamp: new Date().toISOString() }
StampedPayload(data, now) ==
    [f \in DOMAIN data \cup {"timestamp"} |->
        IF f = "timestamp" THEN now ELSE data[f]]

\* emitToRoom(room, event, data): io.to(room).emit(event, data)
emitToRoom(room, event, data) ==
    bcSent' = [ev |-> event, to |-> room, payload |-> data]

\* realTimeEvents.broadcast(event, data, room = null)
broadcast(event, room) ==
    /\ bcClock < MaxClock
    /\ emitToRoom(IF room = "null" THEN "all" ELSE room, event,
                  StampedPayload(bcCaller, bcClock))
    /\ bcClock' = bcClock + 1
    /\ UNCHANGED bcCaller

\* emitAdminEvent, emitDashboardEvent, emitReportsEvent, emitDriverEvent
\* and emitVehicleEvent, told apart by their room
emitEvent(room, event) ==
    /\ bcClock < MaxClock
    /\ emitToRoom(room, event, StampedPayload(bcCaller, bcClock))
    /\ bcClock' = bcClock + 1
    /\ UNCHANGED bcCaller

-----------------------------------------------------------------------------
(***************************************************************************)
(* The request handlers of server.js.  Each is one step: the reads it      *)
(* awaits are answered for the collections in readable and rejected for    *)
(* the others.  A request carries no payload (NoData) or an object; the    *)
(* lastActivity stamp the handlers put on the registry entry is left out.  *)
(***************************************************************************)

\* realTimeEvents.sendModelUpdates(modelName) for each name in turn: a name
\* the switch does not know returns, a rejected read is logged.
sendModelUpdates(models, readable) ==
    LET sent == SelectSeq(models, LAMBDA n : n \in Collections \cap readable)
    IN [k \in 1..Len(sent) |->
           IoEv(UpdateEventOf(sent[k]), "all", store[sent[k]])]

\* socket.on("getLatestData", async ({ model }) => ...): without a payload
\* the destructuring of the parameter throws and nothing catches it.
getLatestData(s, data, readable) ==
    /\ ioOut' = IF data.given THEN sendModelUpdates(<<data.model>>, readable)
                ELSE <<>>
    /\ UNCHANGED <<store, serverClients, socketRooms, clients, pendingSends,
                   joinRoomOf, cachedAtJoin, joinTrace>>

\* socket.on("refresh-data"): no payload stands for the four models; an
\* object without models throws in the for-of and the catch answers.
refreshData(s, data, readable, stats) ==
    /\ ioOut' =
          IF data.given /\ ~data.listed
          THEN <<IoEv("error", s, 0)>>
          ELSE sendModelUpdates(IF data.given THEN data.models
                                ELSE RefreshOrder, readable)
               \o (IF stats THEN <<IoEv("dashboardStats", "all", 0)>> ELSE <<>>)
               \o <<IoEv("refresh-complete", s, 0)>>
    /\ UNCHANGED <<store, serverClients, socketRooms, clients, pendingSends,
                   joinRoomOf, cachedAtJoin, joinTrace>>

-----------------------------------------------------------------------------
(***************************************************************************)
(* Dashboard stats: getDashboardStats, validateStatsData,                  *)
(* sendInitialDashboardData and sendDashboardUpdates of socket.js and      *)
(* sendDashboardStats of server.js.  The stats are told apart by the three *)
(* properties validateStatsData reads; the timestamp the senders add is    *)
(* left out.  An error response of the controller, { error: ... }, is an   *)
(* object that has none of the three.                                      *)
(***************************************************************************)
StatsObject(rides, drivers, income) ==
    [ty |-> "object", n |-> 0, todayRides |-> rides, totalDrivers |-> drivers,
     todayIncome |-> income]

NoStats == [ty |-> "null", n |-> 0, todayRides |-> JsUndefined,
            totalDrivers |-> JsUndefined, todayIncome |-> JsUndefined]

\* What dashboardController.getDashboardStats hands to mockRes.json or to
\* mockRes.status().json before it returns or throws; NoStats when it hands
\* over nothing.
StatsResults ==
    [data : {NoStats} \cup
            {StatsObject(r, d, i) :
                r \in {JsUndefined, JsNum(0 - 1), JsNum(0), JsNum(5)},
                d \in {JsUndefined, JsNull, JsNum(0)},
                i \in {JsUndefined, JsStr(1), JsNum(5)}},
     throws : BOOLEAN]

\* `v !== undefined && v >= 0` after ToNumber: null is 0, "" is 0, "abc" is
\* NaN, true is 1, a plain object is NaN, [] is 0.
DefinedNotNegative(v) ==
    CASE v.ty = "undefined" -> FALSE
      [] v.ty = "null"      -> TRUE
      [] v.ty = "number"    -> v.n >= 0
      [] v.ty = "string"    -> v.n # 1
      [] v.ty = "boolean"   -> TRUE
      [] v.ty = "array"     -> v.n = 0
      [] OTHER              -> FALSE

\* validateStatsData(stats) of socket.js
validateStatsData(stats) ==
    /\ Truthy(stats) /\ TypeOf(stats) = "object"
    /\ \/ DefinedNotNegative(stats.todayRides)
       \/ DefinedNotNegative(stats.totalDrivers)
       \/ DefinedNotNegative(stats.todayIncome)

\* getDashboardStats() of socket.js: the stats, or null
getDashboardStats(result) ==
    IF ~result.throws /\ validateStatsData(result.data) THEN result.data
    ELSE NoStats

\* sendInitialDashboardData(socket) of socket.js
sendInitialDashboardData(s, result) ==
    /\ ioOut' = IF Truthy(getDashboardStats(result))
                THEN <<IoEv("dashboardStats", s, getDashboardStats(result))>>
                ELSE <<>>
    /\ UNCHANGED <<store, serverClients, socketRooms, clients, pendingSends,
                   joinRoomOf, cachedAtJoin, joinTrace>>

\* sendDashboardUpdates(io) of socket.js
sendDashboardUpdates(result) ==
    /\ ioOut' = IF /\ Truthy(getDashboardStats(result))
                   /\ validateStatsData(getDashboardStats(result))
                THEN <<IoEv("dashboardStats", "dashboard",
                            getDashboardStats(result))>>
                ELSE <<>>
    /\ UNCHANGED <<store, serverClients, socketRooms, clients, pendingSends,
                   joinRoomOf, cachedAtJoin, joinTrace>>

\* sendDashboardStats(target) of server.js; target is io ("all") or a socket
sendDashboardStats(target, result) ==
    /\ ioOut' = IF ~result.throws /\ Truthy(result.data)
                THEN <<IoEv("dashboardStats", target, result.data)>>
                ELSE <<>>
    /\ UNCHANGED <<store, serverClients, socketRooms, clients, pendingSends,
                   joinRoomOf, cachedAtJoin, joinTrace>>

-----------------------------------------------------------------------------
(***************************************************************************)
(* The change listeners of server.js, one listener at a time: the listener *)
(* that setupModelChangeStream registers ("stream") and the one that       *)
(* setupDirectDbChangeDetection registers ("direct").  A listener emits    *)
(* its event of the mutation, awaits the settle delay and                  *)
(* sendModelUpdates, and the stream listener of a collection that feeds    *)
(* the dashboard awaits sendDashboardStats(io).  sent lists what the       *)
(* listener has emitted; a listener that has returned stays as "done"      *)
(* until it is forgotten.                                                  *)
(***************************************************************************)
MaxListeners == 2      \* change listeners that have not been forgotten

\* ["vehicles", "drivers", "rides"].includes(modelName.toLowerCase())
AggregateCollections == {"vehicles", "drivers", "rides"}

\* io.emit(`${modelName}:${change.operationType}`, ...) of the stream
\* listener, io.emit("directDbChange", ...) of the direct one
MutationEvent(kind, c) ==
    IoEv(IF kind = "stream" THEN "Model:operation" ELSE "directDbChange",
         "all", c)

\* a write to a collection of the store
StoreWrite(c) ==
    /\ store[c] < MaxMutations
    /\ store' = [store EXCEPT ![c] = @ + 1]
    /\ ioOut' = <<>>
    /\ UNCHANGED handlers

\* A faulty variant that emits nothing before the settle delay.
ChangeNotified_NoEvent(kind, c) ==
    /\ store[c] > 0
    /\ BagCardinality(handlers) < MaxListeners
    /\ ioOut' = <<>>
    /\ handlers' = handlers (+)
           SetToBag({[kind |-> kind, coll |-> c, pc |-> "settle",
                      fetch |-> "pending", sent |-> <<>>]})
    /\ UNCHANGED store

\* changeStream.on("change") up to the await of the settle delay
ChangeNotified(kind, c) ==
    /\ store[c] > 0
    /\ BagCardinality(handlers) < MaxListeners
    /\ ioOut' = <<MutationEvent(kind, c)>>
    /\ handlers' = handlers (+)
           SetToBag({[kind |-> kind, coll |-> c, pc |-> "settle",
                      fetch |-> "pending", sent |-> <<"mutation">>]})
    /\ UNCHANGED store

\* A faulty variant that awaits sendDashboardStats for every collection.
ListenerListing_AlwaysStats(h, ok) ==
    /\ BagIn(h, handlers)
    /\ h.pc = "settle"
    /\ ioOut' = sendModelUpdates(<<h.coll>>, IF ok THEN {h.coll} ELSE {})
    /\ handlers' = (handlers (-) SetToBag({h})) (+)
           SetToBag({[h EXCEPT
                !.fetch = IF ok THEN "answered" ELSE "rejected",
                !.sent = IF ok THEN Append(@, "listing") ELSE @,
                !.pc = IF h.kind = "stream" THEN "stats" ELSE "done"]})
    /\ UNCHANGED store

\* The settle delay has passed and the read of sendModelUpdates is answered
\* or rejected: the listing is emitted or the rejection logged, and the
\* listener goes on.
ListenerListing(h, ok) ==
    /\ BagIn(h, handlers)
    /\ h.pc = "settle"
    /\ ioOut' = sendModelUpdates(<<h.coll>>, IF ok THEN {h.coll} ELSE {})
    /\ handlers' = (handlers (-) SetToBag({h})) (+)
           SetToBag({[h EXCEPT
                !.fetch = IF ok THEN "answered" ELSE "rejected",
                !.sent = IF ok THEN Append(@, "listing") ELSE @,
                !.pc = IF h.kind = "stream" /\ h.coll \in AggregateCollections
                       THEN "stats" ELSE "done"]})
    /\ UNCHANGED store

\* await sendDashboardStats(io) of the stream listener
ListenerStats(h, result) ==
    /\ BagIn(h, handlers)
    /\ h.pc = "stats"
    /\ sendDashboardStats("all", result)
    /\ handlers' = (handlers (-) SetToBag({h})) (+)
           SetToBag({[h EXCEPT
                !.sent = IF ~result.throws /\ Truthy(result.data)
                         THEN Append(@, "stats") ELSE @,
                !.pc = "done"]})

\* a listener that has returned is forgotten
ListenerReturned(h) ==
    /\ BagIn(h, handlers)
    /\ h.pc = "done"
    /\ handlers' = handlers (-) SetToBag({h})
    /\ ioOut' = <<>>
    /\ UNCHANGED store

-----------------------------------------------------------------------------
(***************************************************************************)
(* The polling fallback of server.js.  Time stamps are counted in writes:  *)
(* store[c] is the updatedAt of the most recently mutated record of c, 0   *)
(* when none was written since setupPollingFallback() took new Date() for  *)
(* lastUpdates.  A poll that has found a newer record awaits               *)
(* sendModelUpdates as a listener of kind "poll".                          *)
(***************************************************************************)
\* The callback of a poll interval up to its await of sendModelUpdates:
\* findOne().sort(...) is answered or rejected, and a record newer than
\* lastUpdates[c] moves lastUpdates[c] on before the listing is fetched.
PollTick(c, findOk) ==
    /\ pollingActive
    /\ ioOut' = <<>>
    /\ IF findOk /\ store[c] > lastUpdates[c]
       THEN /\ BagCardinality(handlers) < MaxListeners
            /\ lastUpdates' = [lastUpdates EXCEPT ![c] = store[c]]
            /\ handlers' = handlers (+)
                   SetToBag({[kind |-> "poll", coll |-> c, pc |-> "settle",
                              fetch |-> "pending", sent |-> <<>>]})
       ELSE UNCHANGED <<lastUpdates, handlers>>
    /\ UNCHANGED store

-----------------------------------------------------------------------------
(***************************************************************************)
(* The stale-connection sweep of server.js.  The clock counts the periods  *)
(* of the sweep's interval; lastActivity is the field of the registry      *)
(* entry, lastInbound the time of the latest event the client has sent,    *)
(* whatever the event.                                                     *)
(***************************************************************************)
MaxNow == 4            \* the clock stops here
IdleThreshold == 2     \* periods of the sweep that make a connection stale

\* connectedClients.set(socket.id, {..., lastActivity: new Date()}) of the
\* connection handler.
StampConnection(s) ==
    /\ lastActivity' = [lastActivity EXCEPT ![s] = wallClock]
    /\ lastInbound' = [lastInbound EXCEPT ![s] = wallClock]
    /\ swept' = {}
    /\ wallClock' = wallClock

\* socket.on("join-room") leaves lastActivity as it is.
StampJoinRoom(s) ==
    /\ lastInbound' = [lastInbound EXCEPT ![s] = wallClock]
    /\ swept' = {}
    /\ UNCHANGED <<lastActivity, wallClock>>

\* socket.on("client-heartbeat")
clientHeartbeat(s) ==
    /\ s \in rsSockets
    /\ lastActivity' = IF serverClients[s].has
                       THEN [lastActivity EXCEPT ![s] = wallClock]
                       ELSE lastActivity
    /\ lastInbound' = [lastInbound EXCEPT ![s] = wallClock]
    /\ ioOut' = <<IoEv("server-heartbeat", s, 0)>>
    /\ swept' = {}
    /\ UNCHANGED <<wallClock, store, serverClients, socketRooms, clients,
                   pendingSends, joinRoomOf, cachedAtJoin, joinTrace>>

\* A period of the sweep's interval goes by.
ClockTick ==
    /\ wallClock < MaxNow
    /\ wallClock' = wallClock + 1
    /\ swept' = {}
    /\ UNCHANGED <<lastActivity, lastInbound>>

\* if (now - clientInfo.lastActivity > 5 * 60 * 1000)
Stale(s) == serverClients[s].has /\ wallClock - lastActivity[s] > IdleThreshold

\* The callback of the sweep's interval: socket.disconnect(true) runs the
\* disconnect handlers of the socket, then the entry is deleted.
StaleSweep ==
    /\ swept' = {s \in Sockets : Stale(s)}
    /\ serverClients' = [s \in Sockets |->
                            IF Stale(s) THEN NoClient ELSE serverClients[s]]
    /\ clients' = [k \in ClientSets |-> clients[k] \ swept']
    /\ socketRooms' = [s \in Sockets |->
                          IF Stale(s) THEN {} ELSE socketRooms[s]]
    /\ rsSockets' = rsSockets \ swept'
    /\ connectedClients' =
           SelectSeq(connectedClients, LAMBDA e : e.id \notin swept')
    /\ ioOut' = <<>>
    /\ rsOut' = <<>>
    /\ UNCHANGED <<wallClock, lastActivity, lastInbound, store, pendingSends,
                   joinRoomOf, cachedAtJoin, joinTrace, lastDataCache,
                   broadcastInProgress, rsCalls>>

InitSweep ==
    /\ wallClock = 0
    /\ lastActivity = [s \in Sockets |-> 0]
    /\ lastInbound = [s \in Sockets |-> 0]
    /\ swept = {}

-----------------------------------------------------------------------------
(***************************************************************************)
(* Two runs of ReportsSocketService side by side.  The first run is the    *)
(* service itself; twin holds what the earnings feed of a second run is,   *)
(* a run that gets the same events and the same answers of the controller  *)
(* but in which the requesting client sends other filter parameters.       *)
(* filters is that client's filter state in the second run, timeRange the  *)
(* query of the earnings cycle in flight, earnings the cache entry, sent   *)
(* the earnings events of the latest step.                                 *)
(***************************************************************************)
Requester == "s1"      \* the client that sends requestEarningsReport
Newcomer == "s2"       \* the client that connects afterwards

\* sendCachedDataToClient(socket) of the second run, for the earnings feed.
TwinCachedEarnings(s) ==
    IF Truthy(twin.earnings) /\ isValidData(twin.earnings, "earnings")
    THEN <<Ev("earningsReportData", s, twin.earnings)>>
    ELSE <<>>

\* io.on("connection") in both runs.
TwinConnection(s) ==
    /\ Connection(s)
    /\ twin' = [twin EXCEPT !.sent = TwinCachedEarnings(s),
                            !.filters = IF s = Requester THEN "empty" ELSE @]

\* requestEarningsReport of the requester, with params p1 in the first run
\* and p2 in the second.
TwinRequest(p1, p2) ==
    /\ Requester \in ClientIds
    /\ requestEarningsReport(Requester, p1)
    /\ twin' = [twin EXCEPT !.filters = p2, !.sent = <<>>]

\* The interval of the earnings cycle fires in both runs.
TwinPeriodicEarnings ==
    /\ PeriodicEarnings
    /\ twin' = [twin EXCEPT
           !.timeRange = IF Len(connectedClients) = 0 \/ broadcastInProgress
                         THEN @
                         ELSE IF Truthy(FilterTimeRange(twin.filters))
                              THEN FilterTimeRange(twin.filters)
                              ELSE TimeRangeDay,
           !.sent = <<>>]

\* The controller hands the same data to res.json in both runs.
TwinControllerJson(c, data) ==
    /\ ControllerJson(c, data)
    /\ twin' = [twin EXCEPT
           !.earnings =
               IF rsCalls[c].kind = "requestEarningsReport"
               THEN IF RequestJsonStores(rsCalls[c], data) THEN data ELSE @
               ELSE IF BroadcastJsonStores(rsCalls[c], data)
                    THEN BroadcastPayload(
                             [rsCalls[c] EXCEPT !.timeRange = twin.timeRange],
                             data)
                    ELSE @,
           !.sent = <<>>]

\* The promise of the controller resolves in both runs.
TwinControllerReturn(c) ==
    /\ ControllerReturn(c)
    /\ twin' = [twin EXCEPT !.sent = <<>>]

-----------------------------------------------------------------------------
(***************************************************************************)
(* The driver simulation of socket.js and the driver events of its         *)
(* clients.  A Driver document is a record of the fields the tick and the  *)
(* handlers write; speed, name and lastUpdate are left out, no branch      *)
(* reads them.  destination, passenger and tripId are JavaScript values    *)
(* (null or a string), eta is null or the string "<n> mins".  The tick is  *)
(* one async callback: it suspends at Driver.find and at each              *)
(* Driver.findByIdAndUpdate, and the handlers of client events run in      *)
(* between.  A tick is short next to its period of 3 s, so a second tick   *)
(* does not start before the first has ended.  simTick.drew keeps what    *)
(* the latest pass of the loop drew.                                       *)
(*                                                                         *)
(* utils/locationSimulator is not among the sources.  simulateMovement     *)
(* and simulateBatteryDrain are taken as the specification describes them  *)
(* (a position that advances, a battery that drains and stays at or above  *)
(* 0), with any result within that description, and as functions that may  *)
(* throw, which is what the inner try of the tick is there for;            *)
(* generateETA gives the text of a number of minutes.                      *)
(***************************************************************************)
MaxEta == 2            \* largest number of minutes generateETA gives
MaxTrips == 1          \* completed trips counted per driver

BatteryFallback == 80  \* let batteryLevel = driver.batteryLevel || 80

DriverOrder == <<"d1", "d2">>      \* the order Driver.find answers in

\* the string `${k} mins`
Mins(k) == [ty |-> "string", n |-> k]

\* Number.parseInt(driver.eta?.replace(/\D/g, "") || "0")
ParseEta(eta) == IF eta.ty = "string" THEN eta.n ELSE 0

NewDriver(online) ==
    [isOnline |-> online, status |-> "idle", destination |-> JsNull,
     passenger |-> JsNull, tripId |-> JsNull, eta |-> JsNull,
     completedTrips |-> 0, batteryLevel |-> 1, location |-> "depot"]

\* What the simulator gives in one pass of the loop: simulateMovement or
\* simulateBatteryDrain throws, or they give a position and a battery
\* level that is not above the one they were given.
SimResults(driver) ==
    {[throws |-> TRUE, location |-> driver.location,
      battery |-> driver.batteryLevel]}
    \cup [throws : {FALSE}, location : {"depot", "road"},
          battery : {b \in {0, 1, BatteryFallback} : b <= driver.batteryLevel}]

\* The trip completes in this pass.
Completes(driver) ==
    /\ driver.status = "active"
    /\ Truthy(driver.destination)
    /\ ParseEta(driver.eta) <= 1

\* A faulty variant of the completion that keeps the passenger.
TripProgress_KeepsPassenger(driver, dec) ==
    IF driver.status = "active" /\ Truthy(driver.destination)
    THEN IF ParseEta(driver.eta) > 1
         THEN [driver EXCEPT !.eta =
                  Mins(IF ParseEta(driver.eta) - dec > 1
                       THEN ParseEta(driver.eta) - dec ELSE 1)]
         ELSE [driver EXCEPT !.status = "idle", !.destination = JsNull,
                             !.tripId = JsNull, !.eta = JsNull,
                             !.completedTrips = @ + 1]
    ELSE driver

\* "Update ETA for active drivers": the ETA goes down to its floor of one
\* minute; at the floor the trip is completed.
TripProgress(driver, dec) ==
    IF driver.status = "active" /\ Truthy(driver.destination)
    THEN IF ParseEta(driver.eta) > 1
         THEN [driver EXCEPT !.eta =
                  Mins(IF ParseEta(driver.eta) - dec > 1
                       THEN ParseEta(driver.eta) - dec ELSE 1)]
         ELSE [driver EXCEPT !.status = "idle", !.destination = JsNull,
                             !.passenger = JsNull, !.tripId = JsNull,
                             !.eta = JsNull, !.completedTrips = @ + 1]
    ELSE driver

\* A faulty variant of the assignment that gives no trip identifier.
TripAssignment_NoTripId(driver, assign, gen) ==
    IF driver.status = "idle" /\ assign
    THEN [driver EXCEPT !.status = "active", !.destination = JsStr(1),
                        !.passenger = JsStr(1), !.eta = Mins(gen)]
    ELSE driver

\* "Randomly assign new trips to idle drivers"
TripAssignment(driver, assign, gen) ==
    IF driver.status = "idle" /\ assign
    THEN [driver EXCEPT !.status = "active", !.destination = JsStr(1),
                        !.passenger = JsStr(1), !.tripId = JsStr(1),
                        !.eta = Mins(gen)]
    ELSE driver

\* "Randomly create emergency situations"
EmergencyInjection(driver, emergency) ==
    IF driver.status = "active" /\ emergency
    THEN [driver EXCEPT !.status = "emergency"]
    ELSE driver

\* "Auto-resolve emergency after some time"
EmergencyResolution(driver, resolve) ==
    IF driver.status = "emergency" /\ resolve
    THEN [driver EXCEPT !.status = "active"]
    ELSE driver

\* What one pass of the loop draws: the decrement
\* Math.floor(Math.random() * 2), the tests Math.random() < 0.1, < 0.005
\* and < 0.2, and the minutes of generateETA.  A test the pass does not
\* reach draws nothing: its input is at rest.
Draws(driver) ==
    {w \in [dec : {0, 1}, assign : BOOLEAN, gen : 1..MaxEta,
            emergency : BOOLEAN, resolve : BOOLEAN] :
        LET progressed == TripProgress(driver, w.dec)
            assigned == TripAssignment(progressed, w.assign, w.gen)
            injected == EmergencyInjection(assigned, w.emergency)
        IN  /\ w.dec = 1 => /\ driver.status = "active"
                            /\ Truthy(driver.destination)
                            /\ ParseEta(driver.eta) > 1
            /\ w.assign => progressed.status = "idle"
            /\ w.gen > 1 => w.assign
            /\ w.emergency => assigned.status = "active"
            /\ w.resolve => injected.status = "emergency"}

\* The body of the loop up to Driver.findByIdAndUpdate: the document the
\* pass writes for the driver it read at the start of the tick.
SimulateDriver(driver, in) ==
    LET assigned == TripAssignment(TripProgress(driver, in.draw.dec),
                                   in.draw.assign, in.draw.gen)
        resolved == EmergencyResolution(
                        EmergencyInjection(assigned, in.draw.emergency),
                        in.draw.resolve)
    IN  [resolved EXCEPT
            !.location = in.sim.location,
            !.batteryLevel = IF in.sim.throws /\ driver.batteryLevel = 0
                             THEN BatteryFallback
                             ELSE in.sim.battery]

SimIdle == [pc |-> "idle", docs |-> <<>>, drew |-> <<>>, updated |-> <<>>]

\* The driver the next pass of the loop is about.
SimCurrent ==
    IF simTick.docs # <<>> THEN Head(simTick.docs).doc ELSE NewDriver(TRUE)

\* const drivers = await Driver.find({ isOnline: true }), answered: the
\* tick holds the documents as they are now.
TickRead ==
    [pc |-> "loop", drew |-> <<>>, updated |-> <<>>,
     docs |-> SelectSeq(
         [k \in 1..Len(DriverOrder) |->
             [id |-> DriverOrder[k], doc |-> driverStore[DriverOrder[k]]]],
         LAMBDA e : e.doc.isOnline /\ e.id \notin deleted)]

\* The interval fires: Driver.find({ isOnline: true }) is answered or fails.
TickStart(findOk) ==
    /\ simTick.pc = "idle"
    /\ simTick' = IF findOk THEN TickRead ELSE SimIdle
    /\ simOut' = <<>>
    /\ UNCHANGED driverStore

\* What findByIdAndUpdate answers for a document that is no longer there.
NoRecord == "null"

\* One pass of the loop: the document is computed from what the tick read
\* and written; the emergency alert is emitted before the write.  A write
\* that fails throws out of the loop into the catch of the callback; a
\* write to a document deleted since the tick read it changes nothing and
\* answers null, which is pushed to updatedDrivers like a record.
TickDriver(in, writeOk) ==
    /\ simTick.pc = "loop"
    /\ simTick.docs # <<>>
    /\ LET d == Head(simTick.docs).id
           driver == Head(simTick.docs).doc
           written == SimulateDriver(driver, in)
       IN  /\ in.sim \in SimResults(driver)
           /\ in.draw \in Draws(driver)
           /\ written.completedTrips <= MaxTrips
           /\ simOut' = IF in.draw.emergency
                        THEN <<IoEv("emergencyAlert", "all", d)>>
                        ELSE <<>>
           /\ IF writeOk /\ d \in deleted
              THEN /\ simTick' = [simTick EXCEPT
                          !.docs = Tail(@),
                          !.drew = <<in.draw>>,
                          !.updated = Append(@, [id |-> d, status |-> NoRecord])]
                   /\ UNCHANGED driverStore
              ELSE IF writeOk
              THEN /\ driverStore' = [driverStore EXCEPT ![d] =
                          [written EXCEPT !.isOnline = driverStore[d].isOnline]]
                   /\ simTick' = [simTick EXCEPT
                          !.docs = Tail(@),
                          !.drew = <<in.draw>>,
                          !.updated = Append(@, [id |-> d, status |-> written.status])]
              ELSE /\ simTick' = SimIdle
                   /\ UNCHANGED driverStore

\* updatedDrivers.forEach((driver) => { if (driver.status === "active") ...
\* reads driver.status of every element in turn: at a null element it
\* throws into the catch of the callback, and the elements behind it are
\* not visited.
Visited(updated) ==
    LET nulls == {k \in DOMAIN updated : updated[k].status = NoRecord}
    IN  IF nulls = {} THEN updated
        ELSE SubSeq(updated, 1, (CHOOSE k \in nulls : \A j \in nulls : k <= j) - 1)

\* After the loop: the driversUpdate broadcast and a locationUpdate for
\* every driver written as active.
TickBroadcast ==
    /\ simTick.pc = "loop"
    /\ simTick.docs = <<>>
    /\ simOut' = IF Len(simTick.updated) > 0
                 THEN <<IoEv("driversUpdate", "all", "simulation")>>
                      \o [k \in 1..Len(SelectSeq(Visited(simTick.updated),
                                        LAMBDA u : u.status = "active")) |->
                            IoEv("locationUpdate", "all",
                                 SelectSeq(Visited(simTick.updated),
                                     LAMBDA u : u.status = "active")[k].id)]
                 ELSE <<>>
    /\ simTick' = SimIdle
    /\ UNCHANGED driverStore

\* setInterval does not wait for the promise of its async callback: the
\* interval fires again while a tick is between its awaits.  The tick in
\* flight is kept as lateTick and the new tick reads the drivers.
TickOverlap ==
    /\ simTick.pc = "loop"
    /\ lateTick.pc = "idle"
    /\ lateTick' = simTick
    /\ simTick' = TickRead
    /\ simOut' = <<>>
    /\ UNCHANGED driverStore

\* The await of the other tick in flight is answered next: the event loop
\* goes on with that tick.
TickSwitch ==
    /\ lateTick.pc = "loop"
    /\ simTick' = lateTick
    /\ lateTick' = simTick
    /\ simOut' = <<>>
    /\ UNCHANGED driverStore

\* DELETE /delete/:id of the driver routes: the document is gone from the
\* collection.
deleteDriver(d) ==
    /\ d \notin deleted
    /\ deleted' = deleted \cup {d}
    /\ simOut' = <<>>
    /\ UNCHANGED <<driverStore, simTick>>

\* What a client sends with a driver event: nothing, or an object whose
\* driverId names a driver, names none ("d9") or is no ObjectId ("bad": the
\* cast of the query throws).
NoData == [given |-> FALSE]

\* The query of a handler is answered: nothing threw before or in it.
Answered(data, dbOk) == data.given /\ dbOk /\ data.driverId # "bad"

\* socket.on("updateDriverStatus")
updateDriverStatus(s, data, dbOk) ==
    /\ driverStore' =
          IF Answered(data, dbOk) /\ data.driverId \in DOMAIN driverStore
          THEN [driverStore EXCEPT ![data.driverId].status = data.status]
          ELSE driverStore
    /\ simOut' =
          IF ~Answered(data, dbOk) THEN <<IoEv("error", s, "status")>>
          ELSE IF data.driverId \in DOMAIN driverStore
          THEN <<IoEv("driverStatusChanged", "all", data.driverId),
                 IoEv("statusUpdateSuccess", s, data.driverId)>>
          ELSE <<>>
    /\ UNCHANGED simTick

\* socket.on("emergencyAlert")
emergencyAlert(s, data, dbOk) ==
    /\ driverStore' =
          IF Answered(data, dbOk) /\ data.driverId \in DOMAIN driverStore
          THEN [driverStore EXCEPT ![data.driverId].status = "emergency"]
          ELSE driverStore
    /\ simOut' =
          IF ~Answered(data, dbOk) THEN <<IoEv("error", s, "alert")>>
          ELSE IF data.driverId \in DOMAIN driverStore
          THEN <<IoEv("emergencyAlert", "all", data.driverId)>>
          ELSE <<>>
    /\ UNCHANGED simTick

\* socket.on("updateLocation"): the model has no updateLocation method, the
\* handler takes its fallback.
updateLocation(s, data, dbOk) ==
    /\ driverStore' =
          IF Answered(data, dbOk) /\ data.driverId \in DOMAIN driverStore
          THEN [driverStore EXCEPT ![data.driverId].location = data.location]
          ELSE driverStore
    /\ simOut' =
          IF ~Answered(data, dbOk) THEN <<IoEv("error", s, "location")>>
          ELSE IF data.driverId \in DOMAIN driverStore
          THEN <<IoEv("locationUpdate", "all", data.driverId)>>
          ELSE <<>>
    /\ UNCHANGED simTick

\* socket.on("assignTrip"): the fields of the trip are written as sent.
assignTrip(s, data, gen, dbOk) ==
    /\ driverStore' =
          IF Answered(data, dbOk) /\ data.driverId \in DOMAIN driverStore
          THEN [driverStore EXCEPT ![data.driverId] =
                   [@ EXCEPT !.status = "active",
                             !.destination = data.destination,
                             !.passenger = data.passenger,
                             !.tripId = data.tripId,
                             !.eta = Mins(gen)]]
          ELSE driverStore
    /\ simOut' =
          IF ~Answered(data, dbOk) THEN <<IoEv("error", s, "trip")>>
          ELSE IF data.driverId \in DOMAIN driverStore
          THEN <<IoEv("tripAssigned", "all", data.driverId),
                 IoEv("tripAssignmentSuccess", s, data.driverId)>>
          ELSE <<>>
    /\ UNCHANGED simTick

\* The sweep is at rest, no driver has been deleted and no tick is late.
\* The second run before anything has happened.
NoTwin == [filters |-> "empty", timeRange |-> JsUndefined,
           earnings |-> NoEntry, sent |-> <<>>]

InitExt == InitSweep /\ deleted = {} /\ lateTick = SimIdle /\ twin = NoTwin
           /\ shutdown = "running"

\* One driver is online before the first tick; no timer of
\* triggerReportsUpdate is set and nothing has been dispatched.
InitRest ==
    /\ driverStore = [d \in {"d1", "d2"} |-> NewDriver(d = "d1")]
    /\ simTick = SimIdle
    /\ simOut = <<>>
    /\ rsTimers = 0
    /\ bcCaller = NoEntry
    /\ bcSent = NoEntry
    /\ bcClock = 0
    /\ lastUpdates = [c \in Collections |-> 0]
    /\ InitExt

-----------------------------------------------------------------------------
InitValidate ==
    /\ vData \in ValidatorPayloads
    /\ vType \in ValidationTypes
    /\ vDone = FALSE
    /\ vResult = FALSE

IdleValidate ==
    /\ vData = NoEntry
    /\ vType = "summary"
    /\ vDone = FALSE
    /\ vResult = FALSE

InitReports ==
    /\ rsSockets = {}
    /\ connectedClients = <<>>
    /\ lastDataCache = [k \in CacheKeys |-> NoEntry]
    /\ broadcastInProgress = FALSE
    /\ rsCalls = [c \in 1..MaxCalls |-> FreeCall]
    /\ rsOut = <<>>

NextReports ==
    \/ \E s \in CacheSockets : Connection(s) /\ UNCHANGED nonRepVars
    \/ \E s \in CacheSockets : Disconnect(s) /\ UNCHANGED nonRepVars
    \/ \E s \in CacheSockets, p \in Params :
          requestEarningsReport(s, p) /\ UNCHANGED nonRepVars
    \/ \E s \in CacheSockets : requestDriverPerformance(s) /\ UNCHANGED nonRepVars
    \/ \E s \in CacheSockets : requestRidesAnalysis(s) /\ UNCHANGED nonRepVars
    \/ \E s \in CacheSockets : requestReportsSummary(s) /\ UNCHANGED nonRepVars
    \/ \E c \in CallIds :
          \E data \in ControllerPayloads(EndpointOf(rsCalls[c].kind)) :
              ControllerJson(c, data) /\ UNCHANGED nonRepVars
    \/ \E c \in CallIds : ControllerStatus(c) /\ UNCHANGED nonRepVars
    \/ \E c \in CallIds : ControllerReturn(c) /\ UNCHANGED nonRepVars
    \/ \E c \in CallIds : ControllerThrow(c) /\ UNCHANGED nonRepVars
    \/ PeriodicSummary /\ UNCHANGED nonRepVars
    \/ PeriodicEarnings /\ UNCHANGED nonRepVars
    \/ \E expired \in SUBSET CacheSockets :
          cleanupInactiveConnections(expired) /\ UNCHANGED nonRepVars

NextValidate ==
    Validate /\ UNCHANGED <<repVars, joinVars, watchVars, feedVars, restVars>>

InitSpecValidate ==
    InitValidate /\ InitReports /\ InitJoin /\ InitWatch /\ InitFeed /\ InitRest
SpecValidate == InitSpecValidate /\ [][NextValidate]_vars

InitSpecReports ==
    IdleValidate /\ InitReports /\ InitJoin /\ InitWatch /\ InitFeed /\ InitRest
SpecReports == InitSpecReports /\ [][NextReports]_vars

\* Rooms: one client connects, joins rooms and leaves while the summary
\* cycle of ReportsSocketService fills the cache.
JoinSockets == {"s1"}
JoinPayloads == {SumGood}

InitSpecJoin ==
    /\ IdleValidate
    /\ InitJoin
    /\ InitWatch
    /\ InitFeed
    /\ InitRest
    /\ rsSockets = {}
    /\ connectedClients = <<>>
    /\ lastDataCache = [k \in CacheKeys |-> NoEntry]
    /\ broadcastInProgress = FALSE
    /\ rsCalls = [c \in 1..JoinCalls |-> FreeCall]
    /\ rsOut = <<>>

NextJoin ==
    \/ \E s \in JoinSockets :
          ioConnection(s) /\ Connection(s) /\ UNCHANGED <<restVars, valVars, watchVars, feedVars>>
    \/ \E s \in JoinSockets :
          ioDisconnect(s) /\ Disconnect(s) /\ UNCHANGED <<restVars, valVars, watchVars, feedVars>>
    \/ \E s \in JoinSockets, room \in {"vehicles", "rides", "admin-management",
                                    "reports"} :
          JoinRoom(s, room) /\ UNCHANGED <<restVars, valVars, repVars, watchVars, feedVars>>
    \/ \E t \in BagToSet(pendingSends) :
          \E outcome \in {"data", "stats", "nothing", "error"} :
              SendResolves(t, outcome) /\ UNCHANGED <<restVars, valVars, repVars, watchVars, feedVars>>
    \/ PeriodicSummary /\ UNCHANGED nonRepVars
    \/ \E c \in CallIds, data \in JoinPayloads :
          ControllerJson(c, data) /\ UNCHANGED nonRepVars
    \/ \E c \in CallIds : ControllerReturn(c) /\ UNCHANGED nonRepVars

SpecJoin == InitSpecJoin /\ [][NextJoin]_vars

\* Change streams: the channel of two collections fails and comes back;
\* one collection is written.
WatchCollections == {"vehicles", "drivers"}
FeedCollections == {"vehicles"}
FeedSockets == {"s1"}

InitSpecWatch ==
    IdleValidate /\ InitReports /\ InitJoin /\ InitWatch /\ InitFeed /\ InitRest

NextWatch ==
    \/ \E thrown \in SUBSET WatchCollections :
          MongoOpen(thrown) /\ UNCHANGED <<restVars, valVars, repVars, joinVars, feedVars>>
    \/ \E c \in WatchCollections :
          StreamError(c) /\ UNCHANGED <<restVars, valVars, repVars, joinVars, feedVars>>
    \/ \E c \in WatchCollections :
          StreamClose(c) /\ UNCHANGED <<restVars, valVars, repVars, joinVars, feedVars>>
    \/ \E c \in WatchCollections :
          StaleStreamClose(c) /\ UNCHANGED <<restVars, valVars, repVars, joinVars, feedVars>>
    \/ \E c \in WatchCollections, outcome \in {"ok", "throws"},
          delivery \in {"sync", "async"} :
          ReconnectTimer(c, outcome, delivery)
              /\ UNCHANGED <<restVars, valVars, repVars, joinVars, feedVars>>
    \/ \E c \in WatchCollections :
          DirectStreamClose(c) /\ UNCHANGED <<restVars, valVars, repVars, joinVars, feedVars>>
    \/ \E c \in FeedCollections :
          CollectionChange(c) /\ UNCHANGED <<restVars, valVars, repVars>>

SpecWatch == InitSpecWatch /\ [][NextWatch]_vars

\* Full-listing broadcasts: the streams are opened and stay; one
\* collection is written while clients come and go.

InitSpecFeed ==
    IdleValidate /\ InitReports /\ InitJoin /\ InitWatch /\ InitFeed /\ InitRest

NextFeed ==
    \/ MongoOpen({}) /\ UNCHANGED <<restVars, valVars, repVars, joinVars, feedVars>>
    \/ \E c \in FeedCollections :
          CollectionChange(c) /\ UNCHANGED <<restVars, valVars, repVars>>
    \/ \E s \in FeedSockets : ClientArrives(s) /\ UNCHANGED <<restVars, valVars, repVars>>
    \/ \E s \in FeedSockets : ClientLeaves(s) /\ UNCHANGED <<restVars, valVars, repVars>>
    \/ \E h \in BagToSet(handlers), ok \in BOOLEAN :
          ListenerRead(h, ok) /\ UNCHANGED <<restVars, valVars, repVars>>
    \/ \E h \in BagToSet(handlers) :
          ListenerEmit(h) /\ UNCHANGED <<restVars, valVars, repVars>>
    \/ RefreshTick /\ UNCHANGED <<restVars, valVars, repVars>>
    \/ \E ok \in BOOLEAN : RefreshRead(ok) /\ UNCHANGED <<restVars, valVars, repVars>>
    \/ RefreshEmit /\ UNCHANGED <<restVars, valVars, repVars>>

SpecFeed == InitSpecFeed /\ [][NextFeed]_vars

\* The interval timer keeps firing, an awaited call returns, and a read of
\* a collection that is retried for ever is answered at some time.
RefreshReadOf(c) ==
    /\ refresh.pc = "read"
    /\ RefreshOrder[refresh.idx] = c
    /\ RefreshRead(TRUE)
    /\ UNCHANGED <<restVars, valVars, repVars>>

FairFeed ==
    /\ WF_vars(RefreshTick /\ UNCHANGED <<restVars, valVars, repVars>>)
    /\ \A c \in Collections : SF_vars(RefreshReadOf(c))
    /\ WF_vars(\E ok \in BOOLEAN : RefreshRead(ok) /\ UNCHANGED <<restVars, valVars, repVars>>)
    /\ WF_vars(RefreshEmit /\ UNCHANGED <<restVars, valVars, repVars>>)

SpecFeedLive == InitSpecFeed /\ [][NextFeed]_vars /\ FairFeed

\* Simulation: the ticks over one online driver, with every result of the
\* simulator and of the store.
frameSim == <<valVars, repVars, joinVars, watchVars, feedVars, rsTimers, bcVars,
              lastUpdates, extVars>>

InitSpecSim ==
    IdleValidate /\ InitReports /\ InitJoin /\ InitWatch /\ InitFeed /\ InitRest

NextSim ==
    \/ \E findOk \in BOOLEAN : TickStart(findOk) /\ UNCHANGED frameSim
    \/ \E sim \in SimResults(SimCurrent), draw \in Draws(SimCurrent),
          writeOk \in BOOLEAN :
          TickDriver([sim |-> sim, draw |-> draw], writeOk)
              /\ UNCHANGED frameSim
    \/ TickBroadcast /\ UNCHANGED frameSim

SpecSim == InitSpecSim /\ [][NextSim]_vars

\* Fleet: the same ticks over two online drivers.
InitSpecFleet ==
    /\ IdleValidate /\ InitReports /\ InitJoin /\ InitWatch /\ InitFeed
    /\ driverStore = [d \in {"d1", "d2"} |-> NewDriver(TRUE)]
    /\ simTick = SimIdle
    /\ simOut = <<>>
    /\ rsTimers = 0
    /\ bcCaller = NoEntry
    /\ bcSent = NoEntry
    /\ bcClock = 0
    /\ lastUpdates = [c \in Collections |-> 0]
    /\ InitExt

SpecFleet == InitSpecFleet /\ [][NextSim]_vars

\* Trips: one online driver, the events of the clients about it and the
\* ticks; the simulator leaves position and battery as they are, and
\* generateETA gives its largest number to the handler of assignTrip.
NextTrips ==
    \/ TickStart(TRUE) /\ UNCHANGED frameSim
    \/ \E draw \in Draws(SimCurrent) :
          TickDriver([sim |-> [throws |-> FALSE,
                               location |-> SimCurrent.location,
                               battery |-> SimCurrent.batteryLevel],
                      draw |-> draw], TRUE)
              /\ UNCHANGED frameSim
    \/ TickBroadcast /\ UNCHANGED frameSim
    \/ \E s \in CacheSockets, dbOk \in BOOLEAN,
          data \in {NoData} \cup [given : {TRUE}, driverId : {"d1", "d9", "bad"},
                                  status : {"active", "idle", "offline",
                                            "emergency"}] :
          updateDriverStatus(s, data, dbOk) /\ UNCHANGED frameSim
    \/ \E s \in CacheSockets, dbOk \in BOOLEAN,
          data \in {NoData} \cup [given : {TRUE}, driverId : {"d1", "d9", "bad"}] :
          emergencyAlert(s, data, dbOk) /\ UNCHANGED frameSim
    \/ \E s \in CacheSockets, dbOk \in BOOLEAN,
          data \in {NoData} \cup [given : {TRUE}, driverId : {"d1", "d9", "bad"},
                                  location : {"depot", "road"}] :
          updateLocation(s, data, dbOk) /\ UNCHANGED frameSim
    \/ \E s \in CacheSockets, dbOk \in BOOLEAN,
          data \in {NoData} \cup [given : {TRUE}, driverId : {"d1", "d9", "bad"},
                                  destination : {JsNull, JsStr(1)},
                                  passenger : {JsNull, JsStr(1)},
                                  tripId : {JsStr(1)}] :
          assignTrip(s, data, MaxEta, dbOk) /\ UNCHANGED frameSim

SpecTrips == InitSpecSim /\ [][NextTrips]_vars

\* Cycles: the broadcast cycles of ReportsSocketService, started by the
\* interval timers and by triggerReportsUpdate, and the answers of the
\* controller.
frameCycles == <<valVars, joinVars, watchVars, feedVars, simVars, bcVars,
                 lastUpdates, extVars>>

NextCycles ==
    \/ \E s \in CacheSockets : Connection(s) /\ UNCHANGED nonRepVars
    \/ \E s \in CacheSockets : Disconnect(s) /\ UNCHANGED nonRepVars
    \/ \E c \in CallIds :
          \E data \in ControllerPayloads(EndpointOf(rsCalls[c].kind)) :
              ControllerJson(c, data) /\ UNCHANGED nonRepVars
    \/ \E c \in CallIds : ControllerStatus(c) /\ UNCHANGED nonRepVars
    \/ \E c \in CallIds :
          ControllerReturn(c) /\ TriggerResumes(c) /\ UNCHANGED frameCycles
    \/ \E c \in CallIds :
          ControllerThrow(c) /\ TriggerResumes(c) /\ UNCHANGED frameCycles
    \/ PeriodicSummary /\ UNCHANGED nonRepVars
    \/ PeriodicEarnings /\ UNCHANGED nonRepVars
    \/ triggerReportsUpdate /\ UNCHANGED frameCycles
    \/ TriggerTimer /\ UNCHANGED frameCycles

SpecCycles == InitSpecReports /\ [][NextCycles]_vars

\* Dispatch: callers hand payloads to broadcast and to the emit helpers.
frameBroadcast == <<valVars, repVars, joinVars, watchVars, feedVars, simVars,
                    rsTimers, lastUpdates, extVars>>

InitSpecBroadcast ==
    /\ IdleValidate /\ InitReports /\ InitJoin /\ InitWatch /\ InitFeed
    /\ driverStore = [d \in {"d1", "d2"} |-> NewDriver(d = "d1")]
    /\ simTick = SimIdle
    /\ simOut = <<>>
    /\ rsTimers = 0
    /\ bcCaller \in BcPayloads
    /\ bcSent = NoEntry
    /\ bcClock = 0
    /\ lastUpdates = [c \in Collections |-> 0]
    /\ InitExt

NextBroadcast ==
    \/ \E data \in BcPayloads :      \* a caller makes the object it hands over
          bcCaller' = data /\ UNCHANGED <<bcSent, bcClock, frameBroadcast>>
    \/ \E room \in {"null", "vehicles"} :
          broadcast("vehiclesUpdate", room) /\ UNCHANGED frameBroadcast
    \/ \E room \in {"admin-management", "dashboard", "reports", "drivers",
                    "vehicles"} :
          emitEvent(room, "vehicleAdded") /\ UNCHANGED frameBroadcast
    \/ emitToRoom("vehicles", "vehicleAdded", bcCaller)
          /\ UNCHANGED <<bcCaller, bcClock, frameBroadcast>>

SpecBroadcast == InitSpecBroadcast /\ [][NextBroadcast]_vars

\* Requests: clients send getLatestData, refresh-data and
\* updateDriverStatus, well formed or not.
frameRequests == <<valVars, repVars, watchVars, feedVars, rsTimers, bcVars,
                   lastUpdates, extVars>>

NextRequests ==
    \/ \E s \in Sockets, readable \in SUBSET {"vehicles", "drivers"},
          data \in {NoData} \cup [given : {TRUE},
                                  model : {"vehicles", "drivers", "engines"}] :
          getLatestData(s, data, readable)
              /\ UNCHANGED <<frameRequests, simVars>>
    \/ \E s \in Sockets, readable \in SUBSET {"vehicles", "drivers"},
          stats \in BOOLEAN,
          data \in {NoData, [given |-> TRUE, listed |-> FALSE]}
                   \cup [given : {TRUE}, listed : {TRUE},
                         models : {<<"vehicles">>, <<"engines">>,
                                   <<"engines", "drivers">>}] :
          refreshData(s, data, readable, stats)
              /\ UNCHANGED <<frameRequests, simVars>>
    \/ \E s \in Sockets, dbOk \in BOOLEAN,
          data \in {NoData} \cup [given : {TRUE}, driverId : {"d1", "d9", "bad"},
                                  status : {"active", "idle"}] :
          updateDriverStatus(s, data, dbOk)
              /\ UNCHANGED <<frameRequests, joinVars>>

SpecRequests == InitSpecSim /\ [][NextRequests]_vars

\* Dashboard: the three senders of dashboardStats run on whatever the
\* dashboard controller answers.
NextDashboard ==
    \/ \E s \in Sockets, result \in StatsResults :
          sendInitialDashboardData(s, result)
              /\ UNCHANGED <<frameRequests, simVars>>
    \/ \E result \in StatsResults :
          sendDashboardUpdates(result) /\ UNCHANGED <<frameRequests, simVars>>
    \/ \E target \in Sockets \cup {"all"}, result \in StatsResults :
          sendDashboardStats(target, result)
              /\ UNCHANGED <<frameRequests, simVars>>

SpecDashboard == InitSpecSim /\ [][NextDashboard]_vars

\* Changes: writes to two collections, one that feeds the dashboard and
\* one that does not, and the listeners their notifications start.
frameChange == <<valVars, repVars, watchVars, restVars, engineClients, refresh,
                 lastEmit, serverClients, socketRooms, clients, pendingSends,
                 joinRoomOf, cachedAtJoin, joinTrace>>

NextChange ==
    \/ \E c \in {"vehicles", "admins"} : StoreWrite(c) /\ UNCHANGED frameChange
    \/ \E kind \in {"stream", "direct"}, c \in {"vehicles", "admins"} :
          ChangeNotified(kind, c) /\ UNCHANGED frameChange
    \/ \E h \in BagToSet(handlers), ok \in BOOLEAN :
          ListenerListing(h, ok) /\ UNCHANGED frameChange
    \/ \E h \in BagToSet(handlers),
          result \in {[data |-> NoStats, throws |-> FALSE],
                      [data |-> StatsObject(JsNum(5), JsNum(0), JsNum(5)),
                       throws |-> FALSE],
                      [data |-> StatsObject(JsNum(5), JsNum(0), JsNum(5)),
                       throws |-> TRUE]} :
          ListenerStats(h, result)
              /\ UNCHANGED <<valVars, repVars, watchVars, restVars,
                             engineClients, refresh, lastEmit>>
    \/ \E h \in BagToSet(handlers) : ListenerReturned(h) /\ UNCHANGED frameChange

SpecChange == InitSpecSim /\ [][NextChange]_vars

\* Polling: the state setupPollingFallback() leaves, writes to two
\* collections and the polls of both.
InitSpecPoll ==
    /\ IdleValidate /\ InitReports /\ InitJoin /\ InitFeed /\ InitRest
    /\ dbOpen = TRUE
    /\ watchers = [c \in Collections |-> NewWatcher]
    /\ directStream = [c \in Collections |-> "undefined"]
    /\ pollingActive = TRUE
    /\ failures = [c \in Collections |-> 0]
    /\ resubs = [c \in Collections |-> 0]
    /\ missed = [c \in Collections |-> FALSE]

framePoll == <<valVars, repVars, watchVars, simVars, rsTimers, bcVars,
               engineClients, refresh, lastEmit, serverClients, socketRooms,
               clients, pendingSends, joinRoomOf, cachedAtJoin, joinTrace,
               extVars>>

NextPoll ==
    \/ \E c \in {"vehicles", "drivers"} :
          StoreWrite(c) /\ UNCHANGED <<framePoll, lastUpdates>>
    \/ \E c \in {"vehicles", "drivers"}, findOk \in BOOLEAN :
          PollTick(c, findOk) /\ UNCHANGED framePoll
    \/ \E h \in BagToSet(handlers), ok \in BOOLEAN :
          ListenerListing(h, ok) /\ UNCHANGED <<framePoll, lastUpdates>>
    \/ \E h \in BagToSet(handlers) :
          ListenerReturned(h) /\ UNCHANGED <<framePoll, lastUpdates>>

SpecPoll == InitSpecPoll /\ [][NextPoll]_vars

\* The cycles with the scheduling the runtime gives them: the promise of
\* every controller call settles (it resolves or it rejects), and a timer
\* that is set fires.
ControllerSettles ==
    \E c \in CallIds :
        /\ ControllerReturn(c) \/ ControllerThrow(c)
        /\ TriggerResumes(c)
        /\ UNCHANGED frameCycles

FairCycles ==
    /\ WF_vars(ControllerSettles)
    /\ WF_vars(TriggerTimer /\ UNCHANGED frameCycles)

SpecCyclesLive == InitSpecReports /\ [][NextCycles]_vars /\ FairCycles

\* Sweep: clients connect, join a room, send heartbeats and go; time
\* passes and the sweep runs.
frameSweep == <<valVars, watchVars, feedVars, simVars, rsTimers, bcVars,
                lastUpdates, deleted, lateTick, twin, shutdown>>

NotSweeping == swept' = {} /\ UNCHANGED <<wallClock, lastActivity, lastInbound>>

NextSweep ==
    \/ \E s \in Sockets :
          ioConnection(s) /\ Connection(s) /\ StampConnection(s)
              /\ UNCHANGED frameSweep
    \/ \E s \in Sockets :
          ioDisconnect(s) /\ Disconnect(s) /\ NotSweeping
              /\ UNCHANGED frameSweep
    \/ \E s \in Sockets :
          JoinRoom(s, "vehicles") /\ StampJoinRoom(s)
              /\ UNCHANGED <<repVars, frameSweep>>
    \/ \E t \in BagToSet(pendingSends) :
          \E outcome \in {"data", "stats", "nothing", "error"} :
              SendResolves(t, outcome) /\ NotSweeping
                  /\ UNCHANGED <<repVars, frameSweep>>
    \/ \E s \in Sockets :
          clientHeartbeat(s) /\ UNCHANGED <<repVars, frameSweep>>
    \/ ClockTick /\ UNCHANGED <<repVars, joinVars, frameSweep>>
    \/ StaleSweep /\ UNCHANGED frameSweep

SpecSweep == InitSpecJoin /\ [][NextSweep]_vars

\* Deletions: the ticks over two online drivers while the driver routes
\* delete documents.
frameGone == <<valVars, repVars, joinVars, watchVars, feedVars, rsTimers,
               bcVars, lastUpdates, sweepVars, lateTick, twin, shutdown>>

NextGone ==
    \/ \E findOk \in BOOLEAN :
          TickStart(findOk) /\ UNCHANGED <<frameGone, deleted>>
    \/ \E draw \in Draws(SimCurrent), writeOk \in BOOLEAN :
          TickDriver([sim |-> [throws |-> FALSE,
                               location |-> SimCurrent.location,
                               battery |-> SimCurrent.batteryLevel],
                      draw |-> draw], writeOk)
              /\ UNCHANGED <<frameGone, deleted>>
    \/ TickBroadcast /\ UNCHANGED <<frameGone, deleted>>
    \/ \E d \in DOMAIN driverStore : deleteDriver(d) /\ UNCHANGED frameGone

SpecGone == InitSpecFleet /\ [][NextGone]_vars

\* Trips under fair scheduling: the clients' events put an idle driver
\* into a status, after that only the ticks run.  The interval keeps
\* firing, every pass and every broadcast that is due is made, and a draw
\* that is possible again and again is drawn: the decrement of the ETA
\* without an emergency, and the resolution of an emergency.
PassWith(draw) ==
    TickDriver([sim |-> [throws |-> FALSE,
                         location |-> SimCurrent.location,
                         battery |-> SimCurrent.batteryLevel],
                draw |-> draw], TRUE)
        /\ UNCHANGED frameSim

ProgressPass ==
    \E draw \in Draws(SimCurrent) :
        /\ ~draw.emergency
        /\ ~draw.assign
        /\ Completes(SimCurrent) \/ draw.dec = 1
        /\ PassWith(draw)

ResolvingPass ==
    \E draw \in Draws(SimCurrent) : draw.resolve /\ PassWith(draw)

NextTripsLive ==
    \/ TickStart(TRUE) /\ UNCHANGED frameSim
    \/ \E draw \in Draws(SimCurrent) : PassWith(draw)
    \/ TickBroadcast /\ UNCHANGED frameSim
    \/ \E s \in CacheSockets,
          data \in [given : {TRUE}, driverId : {"d1"},
                    status : {"active", "emergency"}] :
          /\ driverStore["d1"].status = "idle"
          /\ updateDriverStatus(s, data, TRUE) /\ UNCHANGED frameSim
    \/ \E s \in CacheSockets :
          /\ driverStore["d1"].status = "idle"
          /\ emergencyAlert(s, [given |-> TRUE, driverId |-> "d1"], TRUE)
          /\ UNCHANGED frameSim
    \/ \E s \in CacheSockets,
          data \in [given : {TRUE}, driverId : {"d1"},
                    destination : {JsNull, JsStr(1)},
                    passenger : {JsStr(1)}, tripId : {JsStr(1)}] :
          /\ driverStore["d1"].status = "idle"
          /\ assignTrip(s, data, MaxEta, TRUE) /\ UNCHANGED frameSim

FairTrips ==
    /\ WF_vars(TickStart(TRUE) /\ UNCHANGED frameSim)
    /\ WF_vars(\E draw \in Draws(SimCurrent) : PassWith(draw))
    /\ WF_vars(TickBroadcast /\ UNCHANGED frameSim)
    /\ SF_vars(ProgressPass)
    /\ SF_vars(ResolvingPass)

SpecTripsLive == InitSpecSim /\ [][NextTripsLive]_vars /\ FairTrips

\* Overlap: the ticks over one online driver when a tick may still be
\* between its awaits as the interval fires again.
frameOverlap == <<valVars, repVars, joinVars, watchVars, feedVars, rsTimers,
                  bcVars, lastUpdates, sweepVars, deleted, twin, shutdown>>

NextOverlap ==
    \/ TickStart(TRUE) /\ UNCHANGED <<frameOverlap, lateTick>>
    \/ \E draw \in Draws(SimCurrent) : PassWith(draw)
    \/ TickBroadcast /\ UNCHANGED <<frameOverlap, lateTick>>
    \/ TickOverlap /\ UNCHANGED frameOverlap
    \/ TickSwitch /\ UNCHANGED frameOverlap

SpecOverlap == InitSpecSim /\ [][NextOverlap]_vars

\* Twin runs: a requester asks for the earnings report with one filter in
\* the first run and another in the second, the earnings cycle runs, and a
\* newcomer connects.
frameTwin == <<valVars, joinVars, watchVars, feedVars, simVars, rsTimers,
               bcVars, lastUpdates, sweepVars, deleted, lateTick, shutdown>>

NextTwin ==
    \/ \E s \in {Requester, Newcomer} : TwinConnection(s) /\ UNCHANGED frameTwin
    \/ \E p1 \in Params, p2 \in Params : TwinRequest(p1, p2) /\ UNCHANGED frameTwin
    \/ TwinPeriodicEarnings /\ UNCHANGED frameTwin
    \/ \E c \in CallIds, data \in ControllerPayloads("getEarningsReport") :
          TwinControllerJson(c, data) /\ UNCHANGED frameTwin
    \/ \E c \in CallIds : TwinControllerReturn(c) /\ UNCHANGED frameTwin

SpecTwin == InitSpecReports /\ [][NextTwin]_vars

\* Shutdown: the streams are opened, fail and reconnect; SIGTERM runs the
\* cleanup; the process exits when the HTTP server has closed, which waits
\* for the open connections.
frameShutdown == <<valVars, repVars, joinVars, feedVars, simVars, rsTimers,
                   bcVars, lastUpdates, sweepVars, deleted, lateTick, twin>>
Alive == shutdown # "exited" /\ UNCHANGED shutdown

NextShutdown ==
    \/ \E thrown \in SUBSET WatchCollections :
          MongoOpen(thrown) /\ Alive /\ UNCHANGED frameShutdown
    \/ \E c \in WatchCollections :
          StreamError(c) /\ Alive /\ UNCHANGED frameShutdown
    \/ \E c \in WatchCollections :
          StreamClose(c) /\ Alive /\ UNCHANGED frameShutdown
    \/ \E c \in WatchCollections :
          StaleStreamClose(c) /\ Alive /\ UNCHANGED frameShutdown
    \/ \E c \in WatchCollections, outcome \in {"ok", "throws"},
          delivery \in {"sync", "async"} :
          ReconnectTimer(c, outcome, delivery) /\ Alive /\ UNCHANGED frameShutdown
    \/ \E delivery \in [Collections -> {"sync", "async"}] :
          Sigterm(delivery) /\ UNCHANGED frameShutdown
    \/ ServerClosed /\ UNCHANGED frameShutdown

SpecShutdown == InitSpecWatch /\ [][NextShutdown]_vars

\* Rooms and scoped events: two clients connect, join rooms and leave
\* while admin events and vehicle events are emitted to their rooms.
RoomSockets == {"s1", "s2"}

NextRooms ==
    \/ \E s \in RoomSockets :
          ioConnection(s) /\ Connection(s)
              /\ UNCHANGED <<restVars, valVars, watchVars, feedVars>>
    \/ \E s \in RoomSockets :
          ioDisconnect(s) /\ Disconnect(s)
              /\ UNCHANGED <<restVars, valVars, watchVars, feedVars>>
    \/ \E s \in RoomSockets, room \in {"vehicles", "admin-management"} :
          JoinRoom(s, room)
              /\ UNCHANGED <<restVars, valVars, repVars, watchVars, feedVars>>
    \/ \E t \in BagToSet(pendingSends) :
          \E outcome \in {"data", "stats", "nothing", "error"} :
              SendResolves(t, outcome)
                  /\ UNCHANGED <<restVars, valVars, repVars, watchVars, feedVars>>
    \/ \E room \in {"admin-management", "vehicles"} :
          emitEvent(room, "adminCreated") /\ UNCHANGED frameBroadcast

SpecRooms == InitSpecJoin /\ [][NextRooms]_vars

\* ---- end of specifications

-----------------------------------------------------------------------------
(***************************************************************************)
(* The validation table of the specification (section 4.3), stated on the  *)
(* payload itself: what the claims call a valid payload of a feed.         *)
(***************************************************************************)
IsPlainObject(p) == p.ty = "object"
NonNull(v) == v.ty \notin {"undefined", "null"}
\* present and none of 0, "", false
IsTruthyValue(v) ==
    /\ NonNull(v)
    /\ ~(v.ty \in {"number", "string", "boolean"} /\ v.n = 0)

ValidPerTable(type, p) ==
    /\ IsPlainObject(p)
    /\ CASE type = "summary" ->
               p.totalEarnings.ty = "number" /\ p.totalRides.ty = "number"
         [] type = "earnings" -> p.chartData.ty = "array" /\ NonNull(p.summary)
         [] type = "drivers" -> p.tableData.ty = "array"
         [] type = "rides" -> p.chartData.ty = "array"

TypeOfKey(key) ==
    CASE key = "reportsSummary" -> "summary"
      [] key = "earningsReport" -> "earnings"
      [] key = "driverPerformance" -> "drivers"
      [] key = "ridesAnalysis" -> "rides"

-----------------------------------------------------------------------------
(***************************************************************************)
(* C2: commit never overwrites a cached valid entry with an invalid one:   *)
(* in every step, a cache entry that holds a valid payload of its feed is  *)
(* either left as it is or replaced by a valid payload.                    *)
(* Violated: the summary check of isValidData lets a payload with a null   *)
(* (or string) total through, see C5.                                      *)
(***************************************************************************)
C2_ValidNeverReplacedByInvalid ==
    [][\A k \in CacheKeys :
          (/\ ValidPerTable(TypeOfKey(k), lastDataCache[k])
           /\ lastDataCache'[k] # lastDataCache[k])
          => ValidPerTable(TypeOfKey(k), lastDataCache'[k])]_vars

(***************************************************************************)
(* C3: every entry of lastDataCache is a payload that is valid for its     *)
(* feed kind.                                                              *)
(* Violated through the same summary check, see C5.  What the code does    *)
(* keep is CacheEntriesPassIsValidData: every entry passes isValidData as  *)
(* written.                                                                *)
(***************************************************************************)
C3_CacheHoldsOnlyValid ==
    \A k \in CacheKeys :
        lastDataCache[k] = NoEntry \/ ValidPerTable(TypeOfKey(k), lastDataCache[k])

CacheEntriesPassIsValidData ==
    \A k \in CacheKeys :
        lastDataCache[k] = NoEntry \/ isValidData(lastDataCache[k], TypeOfKey(k))

C5_SummaryNumeric ==
    (vDone /\ vType = "summary") => (vResult <=> ValidPerTable("summary", vData))


(***************************************************************************)
(* C6: joining a room whose feed has a cached snapshot yields that         *)
(* snapshot at once: the first thing the join does for the connection is   *)
(* to send the cached payload, before any store read.                      *)
(* Violated: a join of "reports" while a summary is cached sends nothing,  *)
(* and every other room's join starts with a store read.                   *)
(***************************************************************************)
C6_JoinYieldsCachedSnapshot ==
    \A s \in Sockets :
        (joinRoomOf[s] # "none" /\ cachedAtJoin[s] # NoEntry)
        => (joinTrace[s] # <<>> /\ Head(joinTrace[s]) = "cached")

(***************************************************************************)
(* C7: a channel failure of a collection's watcher is answered by one      *)
(* re-subscription: the timers never make more setupStream calls than the  *)
(* channel has had failures.                                               *)
(* Violated: the close event of the replaced stream arrives after          *)
(* isConnected = true, clears it and schedules a timer whose setupStream   *)
(* closes the healthy stream.                                              *)
(***************************************************************************)
C7_OneResubscriptionPerFailure ==
    \A c \in Collections : resubs[c] <= failures[c]

(***************************************************************************)
(* C8: for each collection at most one change-notification subscription    *)
(* opened by the process is active at any moment.                          *)
(* Violated as soon as the store connection opens: setupChangeStreams and  *)
(* setupDirectDbChangeDetection each open a stream on every collection.    *)
(***************************************************************************)
C8_SingleSubscription ==
    \A c \in Collections : ActiveSubscriptions(c) <= 1

(***************************************************************************)
(* C10: when a vehicle is written while no watcher of the vehicles         *)
(* collection is connected, the polling fallback is running.               *)
(* Violated: setupPollingFallback is only called from a catch that no      *)
(* throw reaches.                                                          *)
(***************************************************************************)
C10_PollingCoversOutage ==
    missed["vehicles"] => pollingActive

C9_PollingXorNotification ==
    \A c \in Collections :
        ~(/\ ActiveSubscriptions(c) > 0
          /\ \/ pollingActive
             \/ refresh.pc = "emit" /\ RefreshOrder[refresh.idx] = c)

-----------------------------------------------------------------------------
(***************************************************************************)
(* The driver simulation.  A pass of the loop has written when the tick    *)
(* stays in its loop and its list of updated drivers has grown; the        *)
(* document the pass read is the head of simTick.docs before the step, the *)
(* document it persisted is in driverStore after the step.                 *)
(***************************************************************************)
PassWritten ==
    /\ simTick.pc = "loop"
    /\ simTick.docs # <<>>
    /\ simTick'.pc = "loop"
    /\ Len(simTick'.updated) = Len(simTick.updated) + 1
PassRead == Head(simTick.docs).doc
PassPersisted == driverStore'[Head(simTick.docs).id]
PassDrew == simTick'.drew[1]
TripCleared(doc) ==
    /\ doc.destination = JsNull
    /\ doc.passenger = JsNull
    /\ doc.tripId = JsNull
    /\ doc.eta = JsNull
TripSet(doc) ==
    /\ doc.destination # JsNull
    /\ doc.passenger # JsNull
    /\ doc.tripId # JsNull
    /\ doc.eta.ty = "string"
    /\ doc.eta.n \in 1..MaxEta

\* C11 (as the code has it): a pass over an active driver whose ETA is at
\* its floor persists, in one write, completedTrips raised by exactly 1 and
\* either status idle with destination, passenger, tripId and eta all null,
\* or, when the assignment test of the same pass succeeds, a whole new
\* trip with status active or emergency; the four fields are never cleared
\* in part.
C11_CompletionClearsTrip ==
    [][(PassWritten /\ Completes(PassRead)) =>
          /\ PassPersisted.completedTrips = PassRead.completedTrips + 1
          /\ IF PassDrew.assign
             THEN PassPersisted.status \in {"active", "emergency"}
                  /\ TripSet(PassPersisted)
             ELSE PassPersisted.status = "idle"
                  /\ TripCleared(PassPersisted)]_vars

\* A pass has just completed a trip and left the driver idle.
C11_Witness ==
    /\ simTick.pc = "loop"
    /\ simTick.drew # <<>>
    /\ ~simTick.drew[1].assign
    /\ driverStore["d1"].completedTrips >= 1
    /\ driverStore["d1"].status = "idle"
    /\ TripCleared(driverStore["d1"])

\* C11 as stated: the persisted state at the end of the tick is idle with
\* the four fields null and completedTrips raised by exactly 1.
C11_Original ==
    [][(PassWritten /\ Completes(PassRead)) =>
          /\ PassPersisted.completedTrips = PassRead.completedTrips + 1
          /\ PassPersisted.status = "idle"
          /\ TripCleared(PassPersisted)]_vars

\* C12: a pass in which none of the three tests succeeds (p1 = p2 = p3 = 0)
\* persists the status and the location it read, and a battery level that
\* is neither above the one it read nor below 0.
C12_QuietTickKeepsDrivers ==
    [][(/\ PassWritten
        /\ ~PassDrew.assign
        /\ ~PassDrew.emergency
        /\ ~PassDrew.resolve) =>
          /\ PassPersisted.status = PassRead.status
          /\ PassPersisted.location = PassRead.location
          /\ PassPersisted.batteryLevel <= PassRead.batteryLevel
          /\ PassPersisted.batteryLevel >= 0]_vars

\* C13 (as the code has it): a pass over an idle driver without a
\* destination whose assignment test succeeds (p1 = 1) persists non-null
\* destination, passenger and tripId and an eta that is the text of a
\* number of minutes, with status active, or emergency when the emergency
\* test of the same pass succeeds and the resolution test does not.
C13_AssignmentPersistsTrip ==
    [][(/\ PassWritten
        /\ PassRead.status = "idle"
        /\ PassRead.destination = JsNull
        /\ PassDrew.assign) =>
          /\ TripSet(PassPersisted)
          /\ PassPersisted.status =
                IF PassDrew.emergency /\ ~PassDrew.resolve
                THEN "emergency" ELSE "active"]_vars

\* A pass has just assigned a trip to a driver that was idle.
C13_Witness ==
    /\ simTick.pc = "loop"
    /\ simTick.drew # <<>>
    /\ simTick.drew[1].assign
    /\ driverStore["d1"].completedTrips = 0
    /\ driverStore["d1"].status = "active"
    /\ TripSet(driverStore["d1"])

\* C13 as stated: the pass persists status active, non-null destination,
\* passenger and tripId, and an eta that is a number.
C13_Original ==
    [][(/\ PassWritten
        /\ PassRead.status = "idle"
        /\ PassRead.destination = JsNull
        /\ PassDrew.assign) =>
          /\ PassPersisted.status = "active"
          /\ PassPersisted.destination # JsNull
          /\ PassPersisted.passenger # JsNull
          /\ PassPersisted.tripId # JsNull
          /\ PassPersisted.eta.ty = "number"]_vars

\* C14: in every persisted state the destination, the passenger and the
\* tripId of a driver are all three set or all three absent.
C14_TripFieldsAllOrNothing ==
    \A d \in DOMAIN driverStore :
        \/ /\ driverStore[d].destination = JsNull
           /\ driverStore[d].passenger = JsNull
           /\ driverStore[d].tripId = JsNull
        \/ /\ driverStore[d].destination # JsNull
           /\ driverStore[d].passenger # JsNull
           /\ driverStore[d].tripId # JsNull

\* C15: in every persisted state a driver whose status is not active has
\* no destination, passenger, tripId or eta.
C15_TripFieldsOnlyWhileActive ==
    \A d \in DOMAIN driverStore :
        driverStore[d].status # "active" => TripCleared(driverStore[d])

\* C19: a tick leaves its loop only after it has passed every driver it
\* read, whatever the store answers to a write, and then broadcasts the
\* drivers it has updated.
C19_WriteFailureSkipsOneDriver ==
    [][(simTick.pc = "loop" /\ simTick'.pc = "idle") =>
          /\ simTick.docs = <<>>
          /\ simTick.updated # <<>> =>
                /\ simOut' # <<>>
                /\ simOut'[1].ev = "driversUpdate"]_vars

-----------------------------------------------------------------------------
\* A broadcast cycle is in flight from the start of its fetch to the
\* moment the controller hands it a result.
CyclesInFlight ==
    {c \in CallIds : /\ rsCalls[c].kind \in BroadcastKinds
                     /\ rsCalls[c].phase = "pending"}

\* C16: at most one broadcast cycle is in flight, and broadcastInProgress
\* is true whenever one is.
C16_OneCycleInFlight ==
    /\ Cardinality(CyclesInFlight) <= 1
    /\ CyclesInFlight # {} => broadcastInProgress

\* C17: a tick of an interval timer, a call of triggerReportsUpdate or the
\* callback of its timer that arrives while a cycle is in flight starts no
\* fetch, leaves the cache and the guard as they are, emits nothing and
\* sets no timer that would run it later.
C17_BusyTickIsSkipped ==
    [][(/\ CyclesInFlight # {}
        /\ \/ (PeriodicSummary \/ PeriodicEarnings) /\ rsTimers' = rsTimers
           \/ triggerReportsUpdate
           \/ TriggerTimer) =>
          /\ UNCHANGED <<lastDataCache, broadcastInProgress, rsCalls>>
          /\ rsTimers' <= rsTimers
          /\ rsOut' = <<>>]_vars

-----------------------------------------------------------------------------
\* C18: a dispatch by broadcast or by an emit helper sends a payload that
\* has the caller's keys and "timestamp", equals the caller's payload under
\* every key but "timestamp", and carries the dispatcher's own stamp under
\* "timestamp"; the caller's object is as it was.
C18_BroadcastStampsCopy ==
    [][bcClock' # bcClock =>
          /\ bcCaller' = bcCaller
          /\ DOMAIN bcSent'.payload = DOMAIN bcCaller \cup {"timestamp"}
          /\ \A f \in DOMAIN bcCaller \ {"timestamp"} :
                bcSent'.payload[f] = bcCaller[f]
          /\ bcSent'.payload["timestamp"] = bcClock]_vars

\* A payload has been dispatched whose caller had put another value under
\* "timestamp" and had set the other keys.
C18_Witness ==
    /\ bcSent # NoEntry
    /\ DOMAIN bcCaller = {"success", "data", "timestamp"}
    /\ DOMAIN bcSent.payload = {"success", "data", "timestamp"}
    /\ bcSent.payload["timestamp"] = bcClock - 1
    /\ bcCaller["timestamp"] # bcSent.payload["timestamp"]
    /\ bcSent.payload["data"] = bcCaller["data"]
    /\ bcSent.payload["success"] = bcCaller["success"]

-----------------------------------------------------------------------------
\* C20: a client event whose request is malformed or cannot be resolved (no
\* payload, a model name the server does not know, a driver id that names
\* no driver) emits exactly one error event, to the requesting connection,
\* and leaves the store, the registry and the caches as they were.
C20_BadRequestGetsError ==
    [][\A s \in Sockets :
          /\ (/\ \E dbOk \in BOOLEAN, st \in {"active", "idle"} :
                    \/ updateDriverStatus(s, NoData, dbOk)
                    \/ updateDriverStatus(s, [given |-> TRUE, driverId |-> "d9",
                                              status |-> st], dbOk)
              /\ UNCHANGED <<frameRequests, joinVars>>)
                => /\ simOut' = <<IoEv("error", s, "status")>>
                   /\ UNCHANGED driverStore
          /\ (/\ \E readable \in SUBSET {"vehicles", "drivers"} :
                    \/ getLatestData(s, NoData, readable)
                    \/ getLatestData(s, [given |-> TRUE, model |-> "engines"],
                                     readable)
                    \/ \E stats \in BOOLEAN :
                          \/ refreshData(s, [given |-> TRUE, listed |-> FALSE],
                                         readable, stats)
                          \/ refreshData(s, [given |-> TRUE, listed |-> TRUE,
                                             models |-> <<"engines">>],
                                         readable, stats)
              /\ UNCHANGED <<frameRequests, simVars>>)
                => /\ ioOut' = <<IoEv("error", s, 0)>>
                   /\ UNCHANGED <<store, serverClients, socketRooms, clients,
                                  pendingSends>>]_vars

-----------------------------------------------------------------------------
\* C21: every dashboardStats event emitted, to one connection, to the
\* dashboard room or to all, carries stats that pass validateStatsData; the
\* error response of the controller is never emitted.
C21_OnlyValidStatsEmitted ==
    \A k \in DOMAIN ioOut :
        ioOut[k].ev = "dashboardStats" => validateStatsData(ioOut[k].data)

-----------------------------------------------------------------------------
\* C22: a rejected read of a collection's listing emits no update for that
\* attempt and does not reach the caller: the periodic refresh goes on to
\* the read of its next collection (or ends after the last one, ready for
\* the next tick), a change listener ends, and the other attempts that are
\* under way are left as they were.
C22_FailedFetchIsContained ==
    [][/\ (refresh.pc = "read" /\ refresh'.pc # "emit" /\ refresh' # refresh) =>
            /\ lastEmit' = lastEmit
            /\ handlers' = handlers
            /\ refresh' = IF refresh.idx < Len(RefreshOrder)
                          THEN [pc |-> "read", idx |-> refresh.idx + 1,
                                data |-> NoListing]
                          ELSE RefreshIdle
       /\ \A h \in BagToSet(handlers) :
             (h.pc = "settle" /\ handlers' = handlers (-) SetToBag({h})) =>
                 /\ lastEmit' = lastEmit
                 /\ refresh' = refresh]_vars

\* The read of the vehicles listing has failed in every refresh so far and
\* the refresh under way has read the drivers listing and is about to emit
\* it.
C22_Witness ==
    /\ refresh.pc = "emit"
    /\ refresh.idx = 2
    /\ lastEmit["vehicles"] = NoListing
    /\ refresh.data # NoListing

-----------------------------------------------------------------------------
\* C23: a report request of a connection that has no registry entry (its
\* transport is open, the idle sweep has deleted the entry) leaves the
\* registry as it is, sends the client no error event and is served: its
\* controller call is started.
C23_MissingEntryIsSilent ==
    [][\A s \in CacheSockets :
          (/\ s \in rsSockets
           /\ s \notin ClientIds
           /\ \/ \E p \in Params : requestEarningsReport(s, p)
              \/ requestDriverPerformance(s)
              \/ requestRidesAnalysis(s)
              \/ requestReportsSummary(s)
           /\ UNCHANGED nonRepVars) =>
              /\ connectedClients' = connectedClients
              /\ rsOut' = <<>>
              /\ \E c \in FreeIds : rsCalls'[c].socket = s]_vars

-----------------------------------------------------------------------------
\* C24: every change listener emits the event of the mutation first, at
\* the notification, and the full listing after the settle delay: a
\* listener past its sendModelUpdates whose read was answered has emitted
\* exactly these two, in this order, before anything else, and the steps
\* that record them are the steps that emit them.
C24_MutationThenListing ==
    [][/\ \A h \in BagToSet(handlers') :
             /\ Len(h.sent) >= 1 /\ h.sent[1] = "mutation"
             /\ h.pc = "settle" => h.sent = <<"mutation">>
             /\ (h.pc # "settle" /\ h.fetch = "answered") =>
                    /\ Len(h.sent) >= 2
                    /\ h.sent[2] = "listing"
             /\ (h.pc # "settle" /\ h.fetch = "rejected") =>
                    \A k \in DOMAIN h.sent : h.sent[k] # "listing"
       /\ \A h \in BagToSet(handlers') :
             (h.pc = "settle" /\ CopiesIn(h, handlers') > CopiesIn(h, handlers))
                 => ioOut' = <<MutationEvent(h.kind, h.coll)>>
       /\ \A h \in BagToSet(handlers) :
             (h.pc = "settle" /\ CopiesIn(h, handlers') < CopiesIn(h, handlers))
                 => \/ /\ ioOut' = <<IoEv(UpdateEventOf(h.coll), "all",
                                          store[h.coll])>>
                       /\ \E g \in BagToSet(handlers') :
                             g.fetch = "answered" /\ g.coll = h.coll
                    \/ /\ ioOut' = <<>>
                       /\ \E g \in BagToSet(handlers') :
                             g.fetch = "rejected" /\ g.coll = h.coll]_vars

\* A stream listener and a direct listener of the vehicles have both
\* emitted the event of the mutation and then the listing.
C24_Witness ==
    /\ \E h \in BagToSet(handlers) :
          h.kind = "stream" /\ h.coll = "vehicles" /\ h.pc = "done"
              /\ Len(h.sent) >= 2
              /\ h.sent[1] = "mutation" /\ h.sent[2] = "listing"
    /\ \E h \in BagToSet(handlers) :
          h.kind = "direct" /\ h.pc = "done"
              /\ h.sent = <<"mutation", "listing">>

-----------------------------------------------------------------------------
\* C25: a listener of setupModelChangeStream goes on to sendDashboardStats
\* after its listing attempt if and only if its collection is vehicles,
\* drivers or rides; a listener of the admins and a direct listener never
\* do.  The dashboardStats event is the last thing such a listener emits,
\* after its listing attempt, and is emitted when the controller hands over
\* stats.
C25_StatsAfterAggregateChange ==
    [][/\ \A h \in BagToSet(handlers), g \in BagToSet(handlers') :
             (/\ h.pc = "settle"
              /\ CopiesIn(h, handlers') < CopiesIn(h, handlers)
              /\ CopiesIn(g, handlers') > CopiesIn(g, handlers)) =>
                 (g.pc = "stats" <=>
                     /\ h.kind = "stream"
                     /\ h.coll \in {"vehicles", "drivers", "rides"})
       /\ \A g \in BagToSet(handlers') :
             /\ g.pc = "stats" =>
                    /\ g.kind = "stream" /\ g.coll # "admins"
                    /\ g.fetch # "pending"
             /\ (\E k \in DOMAIN g.sent : g.sent[k] = "stats") =>
                    /\ g.kind = "stream" /\ g.coll # "admins"
                    /\ g.fetch # "pending"
                    /\ g.pc = "done"
                    /\ g.sent[Len(g.sent)] = "stats"
                    /\ \A k \in 1..(Len(g.sent) - 1) : g.sent[k] # "stats"
       /\ (\E k \in DOMAIN ioOut' : ioOut'[k].ev = "dashboardStats") =>
             \/ UNCHANGED handlers
             \/ \E h \in BagToSet(handlers) :
                   /\ h.pc = "stats"
                   /\ CopiesIn(h, handlers') < CopiesIn(h, handlers)]_vars

\* A stream listener of the vehicles has emitted the mutation, the listing
\* and the stats, and a stream listener of the admins has returned after
\* its listing.
C25_Witness ==
    /\ \E h \in BagToSet(handlers) :
          /\ h.kind = "stream" /\ h.coll = "vehicles"
          /\ h.sent = <<"mutation", "listing", "stats">>
    /\ \E h \in BagToSet(handlers) :
          /\ h.kind = "stream" /\ h.coll = "admins" /\ h.pc = "done"
          /\ h.sent = <<"mutation", "listing">>

\* C25 as stated: every stream listener of vehicles, drivers or rides that
\* has returned has emitted dashboardStats.
C25_Original ==
    \A h \in BagToSet(handlers) :
        (/\ h.kind = "stream"
         /\ h.coll \in {"vehicles", "drivers", "rides"}
         /\ h.pc = "done") =>
            \E k \in DOMAIN h.sent : h.sent[k] = "stats"

-----------------------------------------------------------------------------
\* The poll of a collection starts the fetch of the listing if and only if
\* the newest record is strictly newer than lastUpdates, and lastUpdates
\* never goes back.
PollRefetchesIffNewer ==
    [][\A c \in Collections :
          /\ lastUpdates'[c] >= lastUpdates[c]
          /\ lastUpdates'[c] # lastUpdates[c] =>
                /\ store[c] > lastUpdates[c]
                /\ lastUpdates'[c] = store[c]
                /\ \E h \in BagToSet(handlers') :
                      /\ h.kind = "poll" /\ h.coll = c /\ h.pc = "settle"
                      /\ CopiesIn(h, handlers') = CopiesIn(h, handlers) + 1
          /\ (\E h \in BagToSet(handlers') :
                 /\ h.kind = "poll" /\ h.coll = c /\ h.pc = "settle"
                 /\ CopiesIn(h, handlers') > CopiesIn(h, handlers)) =>
                store[c] > lastUpdates[c]]_vars

-----------------------------------------------------------------------------
\* C26: every channel failure of a watcher (an error, a close of its open
\* stream, a subscribe attempt that throws) leaves a reconnect timer
\* pending, and a watcher that is connected (isConnected with its stream
\* open) stays connected in every step that is no channel failure.
C26_RetriedAndStaysConnected ==
    [][\A c \in WatchCollections :
          /\ failures'[c] > failures[c] => watchers'[c].timers > 0
          /\ (/\ watchers[c].isConnected
              /\ watchers[c].changeStream = "open"
              /\ failures'[c] = failures[c]) =>
                 /\ watchers'[c].isConnected
                 /\ watchers'[c].changeStream = "open"]_vars

\* Every channel failure of a watcher leaves a reconnect timer pending.
FailureSchedulesRetry ==
    [][\A c \in WatchCollections :
          failures'[c] > failures[c] => watchers'[c].timers > 0]_vars


-----------------------------------------------------------------------------
\* The timer of triggerReportsUpdate is set only when the awaited summary
\* call of a trigger settles, or when the summary returned at once because
\* nobody is connected (holds).
TimerFollowsTriggerSummary ==
    [][rsTimers' > rsTimers =>
          \/ \E c \in CallIds : /\ rsCalls[c].socket = "trigger"
                                /\ rsCalls[c].kind = "broadcastReportsSummary"
                                /\ rsCalls'[c] = FreeCall
          \/ Len(connectedClients) = 0 /\ ~broadcastInProgress]_vars

\* C28: a trigger that finds no cycle running starts a summary cycle, and
\* its earnings cycle is serialized behind it by the guard: the timer
\* callback starts the earnings cycle only when no cycle is in flight, and
\* starts nothing when another cycle is in flight.
C28_TriggerEarningsSerialized ==
    [][/\ (\E c \in CallIds : /\ rsCalls[c] = FreeCall
                              /\ rsCalls'[c] # FreeCall
                              /\ rsCalls'[c].socket = "trigger") =>
              /\ ~broadcastInProgress
              /\ rsCalls'[NewId].kind = "broadcastReportsSummary"
       /\ (rsTimers' < rsTimers /\ rsCalls' # rsCalls) =>
              /\ CyclesInFlight = {}
              /\ rsCalls'[NewId].kind = "broadcastEarningsReport"
       /\ (rsTimers' < rsTimers /\ CyclesInFlight # {}) =>
              rsCalls' = rsCalls]_vars

-----------------------------------------------------------------------------
\* A broadcast cycle starts in this step as call c.
CycleStarts(c) ==
    /\ rsCalls[c] = FreeCall
    /\ rsCalls'[c].kind \in BroadcastKinds

\* mockReq.query.timeRange of a query that is the filter state f itself,
\* and of the default query of each cycle ({} and {timeRange: "day"}).
DefaultTimeRange(kind) ==
    IF kind = "broadcastEarningsReport" THEN TimeRangeDay ELSE JsUndefined

\* The representative filter state is used when it has a timeRange, and
\* the default when every connected client's filter state is empty (holds).
RepresentativeWithTimeRange ==
    [][\A c \in CallIds : CycleStarts(c) =>
          /\ Truthy(FilterTimeRange(FirstNonEmpty)) =>
                rsCalls'[c].timeRange = FilterTimeRange(FirstNonEmpty)
          /\ ~NonEmptyFilter(FirstNonEmpty) =>
                rsCalls'[c].timeRange = DefaultTimeRange(rsCalls'[c].kind)]_vars

\* C29: a broadcast cycle queries with the filter state of the first
\* connection, in registry order, whose filter state is non-empty, and
\* with the default query only when every filter state is empty.
C29_RepresentativeFilterQueried ==
    [][\A c \in CallIds : CycleStarts(c) =>
          rsCalls'[c].timeRange =
                IF NonEmptyFilter(FirstNonEmpty)
                THEN FilterTimeRange(FirstNonEmpty)
                ELSE DefaultTimeRange(rsCalls'[c].kind)]_vars

-----------------------------------------------------------------------------
\* The controller of cycle c hands data to mockRes.json in this step.
CycleJson(c, data) ==
    /\ rsCalls[c].kind \in BroadcastKinds
    /\ data \in ControllerPayloads(EndpointOf(rsCalls[c].kind))
    /\ ControllerJson(c, data)
    /\ UNCHANGED rsTimers

\* What the controllers of the two cycles may hand to mockRes.json.
CyclePayloads ==
    ControllerPayloads("getReportsSummary")
        \cup ControllerPayloads("getEarningsReport")

\* "meaningful": a summary with earnings or rides, an earnings report with
\* hasData set.
Meaningful(kind, data) ==
    IF kind = "broadcastReportsSummary"
    THEN \/ GreaterThanZero(Get(data, "totalEarnings"))
         \/ GreaterThanZero(Get(data, "totalRides"))
    ELSE Truthy(Get(data, "hasData"))

\* What a cycle does with a payload under the condition `commits`: it
\* emits one update event to everybody and the cache entry of the feed
\* becomes the payload of that event, or it emits nothing and leaves the
\* cache as it is.
CommitsAndBroadcastsIff(c, commits) ==
    IF commits
    THEN /\ Len(rsOut') = 1
         /\ rsOut'[1].ev = DataEventOf(rsCalls[c].kind)
         /\ rsOut'[1].to = "all"
         /\ lastDataCache' =
               [lastDataCache EXCEPT ![CacheKeyOf(rsCalls[c].kind)] =
                                        rsOut'[1].data]
    ELSE rsOut' = <<>> /\ lastDataCache' = lastDataCache

\* Commit and broadcast go together for the payloads isValidData accepts
\* (holds).
CommitWithBroadcastAsValidated ==
    [][\A c \in CallIds : \A data \in CyclePayloads :
          CycleJson(c, data) =>
              CommitsAndBroadcastsIff(c,
                  /\ isValidData(data, ValidationTypeOf(rsCalls[c].kind))
                  /\ Meaningful(rsCalls[c].kind, data))]_vars

\* C30: a broadcast cycle emits its update event if and only if the
\* fetched payload is valid for its feed and meaningful, and then the cache
\* entry of the feed is exactly the payload broadcast; otherwise the cache
\* is unchanged and nothing is emitted.
C30_CommitWithBroadcast ==
    [][\A c \in CallIds : \A data \in CyclePayloads :
          CycleJson(c, data) =>
              CommitsAndBroadcastsIff(c,
                  /\ ValidPerTable(ValidationTypeOf(rsCalls[c].kind), data)
                  /\ Meaningful(rsCalls[c].kind, data))]_vars

-----------------------------------------------------------------------------
\* A cycle whose controller answers through res clears the guard in that
\* step (holds).
AnswerClearsGuard ==
    [][\A c \in CallIds :
          (/\ rsCalls[c].kind \in BroadcastKinds
           /\ rsCalls[c].phase = "pending"
           /\ rsCalls'[c].phase = "responded") => ~broadcastInProgress']_vars

\* C31: every broadcast cycle that sets broadcastInProgress eventually
\* clears it, whatever the controller does.
C31_GuardEventuallyCleared == broadcastInProgress ~> ~broadcastInProgress

-----------------------------------------------------------------------------
\* After a sweep no registry entry has a lastActivity older than the
\* threshold, and the sweep evicts nothing else (holds).
SweepLeavesNoStaleEntry ==
    [][(StaleSweep /\ UNCHANGED frameSweep) =>
          \A s \in Sockets :
              /\ serverClients'[s].has =>
                    wallClock' - lastActivity'[s] <= IdleThreshold
              /\ s \in swept' => wallClock - lastActivity[s] > IdleThreshold]_vars

\* C32: the sweep evicts a connection only if the connection has sent no
\* event of any kind for longer than the idle threshold.
C32_OnlyIdleEvicted ==
    [][\A s \in swept' : wallClock - lastInbound[s] > IdleThreshold]_vars

-----------------------------------------------------------------------------
\* The tick ends its loop in this step and has written for some driver.
TickEnds ==
    /\ simTick.pc = "loop"
    /\ simTick.docs = <<>>
    /\ simTick.updated # <<>>
    /\ simTick'.pc = "idle"

\* The drivers of updatedDrivers whose write returned a record with status
\* "active", in the order of the writes.
WrittenActive == SelectSeq(simTick.updated, LAMBDA u : u.status = "active")

\* The list is broadcast once and after all writes of the tick, and the
\* drivers in front of the first missing record get their locationUpdate
\* iff they were written as active (holds).
ListOnceAfterWrites ==
    [][/\ TickEnds =>
            /\ simOut'[1] = IoEv("driversUpdate", "all", "simulation")
            /\ \A k \in 2..Len(simOut') : simOut'[k].ev = "locationUpdate"
            /\ \A k \in DOMAIN Visited(simTick.updated) :
                  simTick.updated[k].status = "active" <=>
                     \E j \in DOMAIN simOut' :
                        simOut'[j] = IoEv("locationUpdate", "all",
                                          simTick.updated[k].id)
       /\ (\E k \in DOMAIN simOut' : simOut'[k].ev = "driversUpdate") =>
            simTick.pc = "loop" /\ simTick.docs = <<>>]_vars

-----------------------------------------------------------------------------
\* A pass of the tick emits the alert for d and its write succeeds.
AlertedAndWritten(d) ==
    /\ simTick.pc = "loop"
    /\ simOut' = <<IoEv("emergencyAlert", "all", d)>>
    /\ simTick'.pc = "loop"
    /\ Len(simTick'.updated) = Len(simTick.updated) + 1

\* The alert of a pass is the alert of the driver the pass is about, and
\* the pass emits it only for a driver it has put into emergency (holds).
AlertOnlyOnInjection ==
    [][\A d \in DOMAIN driverStore : AlertedAndWritten(d) =>
          /\ d = Head(simTick.docs).id
          /\ simTick'.drew[1].emergency]_vars

\* C34: whenever a tick emits an emergencyAlert for a driver, the status
\* the same tick persists for that driver is emergency.
C34_AlertMeansEmergencyPersisted ==
    [][\A d \in DOMAIN driverStore : AlertedAndWritten(d) =>
          driverStore'[d].status = "emergency"]_vars

-----------------------------------------------------------------------------
\* The trip of d has been completed: d is idle, or the pass that made it
\* idle has given it its next trip at once.
TripCompleted(d) ==
    \/ driverStore[d].status = "idle"
    \/ driverStore[d].completedTrips >= MaxTrips

\* An active driver with a destination has its trip completed (holds under
\* the fair scheduling).
TripWithDestinationCompletes ==
    \A d \in {"d1"} :
        (/\ driverStore[d].status = "active"
         /\ Truthy(driverStore[d].destination)
         /\ driverStore[d].completedTrips < MaxTrips)
            ~> TripCompleted(d)

\* C35: every online driver whose status is active eventually has its
\* trip completed and is idle again, whatever put it into active.
C35_ActiveEventuallyIdle ==
    \A d \in {"d1"} :
        (/\ driverStore[d].isOnline
         /\ driverStore[d].status = "active"
         /\ driverStore[d].completedTrips < MaxTrips)
            ~> TripCompleted(d)

-----------------------------------------------------------------------------
\* A pass of a tick completes the trip of d in this step and writes.
CompletingWrite(d) ==
    /\ simTick.pc = "loop"
    /\ simTick.docs # <<>>
    /\ Head(simTick.docs).id = d
    /\ Completes(Head(simTick.docs).doc)
    /\ lateTick' = lateTick
    /\ simTick'.pc = "loop"
    /\ simTick'.docs = Tail(simTick.docs)

\* C36: completedTrips of a driver is incremented exactly once per
\* completed trip, also when ticks overlap: every pass that completes a
\* trip raises the persisted counter by one.
C36_CompletionCountsOnce ==
    [][\A d \in DOMAIN driverStore : CompletingWrite(d) =>
          driverStore'[d].completedTrips = driverStore[d].completedTrips + 1]_vars

-----------------------------------------------------------------------------
\* A pass of the tick writes driver d in this step.
TickWrites(d) ==
    /\ simTick.pc = "loop"
    /\ simTick.docs # <<>>
    /\ Head(simTick.docs).id = d
    /\ simTick'.pc = "loop"
    /\ simTick'.docs = Tail(simTick.docs)
    /\ lateTick' = lateTick

\* C37: a status a client has set with updateDriverStatus or
\* emergencyAlert since the tick read the driver is not overwritten by the
\* tick's write with the status the tick read.
C37_TickKeepsClientStatus ==
    [][\A d \in DOMAIN driverStore :
          (/\ TickWrites(d)
           /\ driverStore[d].status # Head(simTick.docs).doc.status) =>
              driverStore'[d].status = driverStore[d].status]_vars

-----------------------------------------------------------------------------
\* The newcomer connects in this step.
NewcomerConnects == Newcomer \notin rsSockets /\ Newcomer \in rsSockets'

\* C38: the cached payloads a newly connected client is sent do not depend
\* on the filter parameters another connection has requested: the newcomer
\* is sent the same earnings payload in both runs.
C38_OnConnectIndependentOfFilters ==
    [][NewcomerConnects =>
          twin'.sent = SelectSeq(rsOut', LAMBDA e : e.ev = "earningsReportData")]_vars

-----------------------------------------------------------------------------
\* Until the cleanup has run, nothing but a failure of the channel, a
\* close of a stream or a throwing setupStream sets a reconnect timer: a
\* timer is set only in a step that leaves the watcher disconnected.
TimerOnlyWhenDisconnected ==
    [][\A c \in WatchCollections :
          watchers'[c].timers > watchers[c].timers =>
              ~watchers'[c].isConnected]_vars

\* C39: once the cleanup of the watchers has been called at shutdown, no
\* watcher sets a reconnect timer and no watcher calls setupStream again.
C39_NoReconnectAfterCleanup ==
    [][shutdown = "cleaned" =>
          \A c \in WatchCollections :
              /\ watchers'[c].timers <= watchers[c].timers
              /\ resubs'[c] = resubs[c]]_vars

-----------------------------------------------------------------------------
\* io.to(room): the sockets an event emitted to a room is delivered to.
RoomMembers(room) == {s \in Sockets : room \in socketRooms[s]}

\* The connection has sent join-room for the room since it connected.
HasJoined(s, room) == InSeq(room, serverClients[s].rooms)

\* Apart from the two rooms the connection handler puts every socket in,
\* a socket is in a room only if it has sent join-room for it.
OtherRoomsOnlyByJoinRoom ==
    \A s \in Sockets :
        \A room \in socketRooms[s] \ {"dashboard", "admin-management"} :
            HasJoined(s, room)

\* C40: a connection is a member of a room only if it has sent join-room
\* for that room, and an event emitted to admin-management is delivered
\* only to connections that have sent join-room for admin-management.
C40_MemberOnlyByJoinRoom ==
    [][/\ \A s \in Sockets :
              \A room \in socketRooms'[s] : HasJoined(s, room)'
       /\ (bcClock' > bcClock /\ bcSent'.to = "admin-management") =>
              \A s \in RoomMembers("admin-management") :
                  HasJoined(s, "admin-management")]_vars
=============================================================================
